---- MODULE Spec2Model ----
(***************************************************************************)
(* A model of burritobot: the get-all-menus batch loop of burritocli and   *)
(* the menu reduction (Summary::try_from, SummaryBuilder, Menu::try_from). *)
(*                                                                         *)
(* Spec      the batch run of burritocli (Command::AllMenus)               *)
(* FairSpec  the same run, with the scheduling fairness of the runtime     *)
(* MenuSpec  the menu reduction, applied to bounded item lists             *)
(***************************************************************************)
EXTENDS Integers, Sequences, FiniteSets, TLC

VARIABLES
    locations,      \* burritocli: Vec<Location> collected before the loop
    phase,          \* burritocli: position of main in the batch loop
    chunk_no,       \* burritocli: 1-based index of the current location_batch
    issued,         \* positions (in locations) whose menu request was sent
    in_flight,      \* positions whose request was sent and has not resolved
    outcome,        \* position -> outcome of Menu::get_custom ("none" before)
    menu_batch,     \* burritocli: entries collected for the current chunk
    menus,          \* burritocli: the accumulated Vec of entries
    progress,       \* burritocli: ProgressBar position
    sleeps,         \* number of time::sleep(delay_between_batches) completed
    entrees,        \* menu reduction: Response.entrees handed to try_from
    restaurant_id,  \* menu reduction: Response.restaurant_id
    builder,        \* menu reduction: the SummaryBuilder
    mpc,            \* menu reduction: position of the caller
    summary,        \* menu reduction: Result of Summary::try_from / build
    menu,           \* menu reduction: Result of Menu::try_from (pepper-api)
    client,         \* bb-chipotle: the Client (None before Client::new)
    http_requests,  \* the HTTP requests sent so far, in order
    call,           \* the last library call: its arguments and its result
    n_calls,        \* number of library calls made so far
    args,           \* command binaries: which binary runs, and its Args
    cmd_pc,         \* command binaries: position of main
    stdout,         \* command binaries: the objects printed with println!
    exit_status,    \* command binaries: None while running, else the status
    cmd_api_key,    \* bb-get-locations: the api_key of main (None before)
    retrieved_locations, \* bb-get-menu, bb-get-locations: the locations
    cmd_in_flight,  \* bb-get-menu: positions whose menu request is pending
    located         \* bb-get-menu: the collected Vec of location/menu objects

batch_vars == <<locations, phase, chunk_no, issued, in_flight, outcome,
                menu_batch, menus, progress, sleeps>>
menu_vars == <<entrees, restaurant_id, builder, mpc, summary, menu>>
client_vars == <<client, http_requests, call, n_calls>>
cmd_vars == <<args, cmd_pc, stdout, exit_status, cmd_api_key,
              retrieved_locations, cmd_in_flight, located>>
vars == <<locations, phase, chunk_no, issued, in_flight, outcome,
          menu_batch, menus, progress, sleeps,
          entrees, restaurant_id, builder, mpc, summary, menu,
          client, http_requests, call, n_calls,
          args, cmd_pc, stdout, exit_status, cmd_api_key,
          retrieved_locations, cmd_in_flight, located>>

(***************************************************************************)
(* Bounds of the model                                                     *)
(***************************************************************************)
MaxLocations == 12

(***************************************************************************)
(* Constants of the program                                                *)
(***************************************************************************)
ChunkSize == 5

BufferLimit == 5

Min(a, b) == IF a < b THEN a ELSE b

(***************************************************************************)
(* slice::chunks as used by locations.chunks(5): consecutive slices of     *)
(* chunk_size elements, the last one holding the remainder.                *)
(***************************************************************************)
NumChunksExact(n, chunk_size) == n \div chunk_size

NumChunks(n, chunk_size) == (n + chunk_size - 1) \div chunk_size

ChunkFirst(i, chunk_size) == (i - 1) * chunk_size + 1

ChunkLast(i, n, chunk_size) == Min(i * chunk_size, n)

Chunks(list, chunk_size) ==
    [i \in 1..NumChunks(Len(list), chunk_size) |->
        SubSeq(list, ChunkFirst(i, chunk_size),
               ChunkLast(i, Len(list), chunk_size))]

\* The positions (indices into locations) of the i-th location_batch.
location_batch(i) ==
    ChunkFirst(i, ChunkSize)..ChunkLast(i, Len(locations), ChunkSize)

(***************************************************************************)
(* Outcomes of Menu::get_custom: Ok or one of the GetError kinds it can    *)
(* return.                                                                 *)
(***************************************************************************)
GetErrors == {"RequestError", "ResponseError", "ResponseBodyError",
              "ParseError", "TranslateError"}

GetOutcomes == {"Ok"} \cup GetErrors

\* json!({"location": location, "menu": menu})
Entry(p) == [location |-> locations[p], menu |-> "Ok"]

(***************************************************************************)
(* Strings are sequences of characters, so that the string operations of   *)
(* the reduction (to_lowercase, replace, trim) are computed.               *)
(***************************************************************************)
UpperCase == <<"A", "B", "C", "D", "E", "F", "G", "H", "I", "J", "K", "L", "M", "N", "O", "P", "Q", "R", "S", "T", "U", "V", "W", "X", "Y", "Z">>

LowerCase == <<"a", "b", "c", "d", "e", "f", "g", "h", "i", "j", "k", "l", "m", "n", "o", "p", "q", "r", "s", "t", "u", "v", "w", "x", "y", "z">>

\* The lowercase mapping of the upper case letters.
UpperToLower ==
    [c \in {UpperCase[i] : i \in 1..Len(UpperCase)} |->
        LowerCase[CHOOSE i \in 1..Len(UpperCase) : UpperCase[i] = c]]

ToLowerChar(c) == IF c \in DOMAIN UpperToLower THEN UpperToLower[c] ELSE c

\* str::to_lowercase
to_lowercase_identity(s) == s

to_lowercase(s) == [i \in 1..Len(s) |-> ToLowerChar(s[i])]

StartsWith(s, pat) == Len(pat) <= Len(s) /\ SubSeq(s, 1, Len(pat)) = pat

\* The start of the first match of pat in s at or after position p, or 0.
find_from(s, pat, p) ==
    LET starts == {i \in p..(Len(s) - Len(pat) + 1) :
                      SubSeq(s, i, i + Len(pat) - 1) = pat}
    IN IF starts = {} THEN 0
       ELSE CHOOSE i \in starts : \A j \in starts : i <= j

\* The empty pattern matches before every character and at the end.
RECURSIVE replace_empty(_, _)
replace_empty(s, to) ==
    IF Len(s) = 0 THEN to
    ELSE to \o <<Head(s)>> \o replace_empty(Tail(s), to)

\* The loop of str::replace over the matches, from position p on.
RECURSIVE replace_from(_, _, _, _)
replace_from(s, from, to, p) ==
    LET i == find_from(s, from, p)
    IN IF i = 0 THEN SubSeq(s, p, Len(s))
       ELSE SubSeq(s, p, i - 1) \o to
                \o replace_from(s, from, to, i + Len(from))

\* str::replace(from, to): every non-overlapping match, left to right.
replace(s, from, to) ==
    IF Len(from) = 0 THEN replace_empty(s, to)
    ELSE replace_from(s, from, to, 1)

WhiteSpace == {" ", "\t", "\n", "\r"}

\* str::trim: leading and trailing white space removed.
RECURSIVE trim_start(_)
trim_start(s) ==
    IF Len(s) > 0 /\ Head(s) \in WhiteSpace THEN trim_start(Tail(s)) ELSE s

RECURSIVE trim_end(_)
trim_end(s) ==
    IF Len(s) > 0 /\ s[Len(s)] \in WhiteSpace
    THEN trim_end(SubSeq(s, 1, Len(s) - 1))
    ELSE s

trim(s) == trim_end(trim_start(s))

STR_bowl == <<"b", "o", "w", "l">>

STR_veggie == <<"v", "e", "g", "g", "i", "e">>

STR_chicken == <<"c", "h", "i", "c", "k", "e", "n">>

STR_steak == <<"s", "t", "e", "a", "k">>

(***************************************************************************)
(* Option and Result values: None is <<>>, Some(v) is <<v>>.               *)
(***************************************************************************)
None == <<>>

Some(v) == <<v>>

is_some(o) == o # <<>>

is_none(o) == o = <<>>

unwrap(o) == o[1]

Ok(v) == [tag |-> "Ok", value |-> <<v>>, error |-> <<>>]

Err(e) == [tag |-> "Err", value |-> <<>>, error |-> <<e>>]

(***************************************************************************)
(* bb-chipotle: menu/summary.rs                                            *)
(***************************************************************************)
\* Price { normal_price: item.unit_price, delivery_price: .. }
Price(item) == [normal_price |-> item.unit_price,
                delivery_price |-> item.unit_delivery_price]

\* SummaryBuilder::default()
SummaryBuilder_default ==
    [restaurant_id |-> None, veggie_bowl_price |-> None,
     chicken_bowl_price |-> None, steak_bowl_price |-> None]

\* The setters of SummaryBuilder.
set_restaurant_id(b, id) == [b EXCEPT !.restaurant_id = Some(id)]

set_veggie_bowl_price(b, price) == [b EXCEPT !.veggie_bowl_price = Some(price)]

set_chicken_bowl_price(b, price) ==
    [b EXCEPT !.chicken_bowl_price = Some(price)]

set_steak_bowl_price(b, price) == [b EXCEPT !.steak_bowl_price = Some(price)]

\* SummaryBuilder::is_complete
is_complete(b) ==
    /\ is_some(b.restaurant_id)
    /\ is_some(b.veggie_bowl_price)
    /\ is_some(b.chicken_bowl_price)
    /\ is_some(b.steak_bowl_price)

\* The missing_fields vector of SummaryBuilder::build, push after push.
missing_fields_no_chicken(b) ==
    (IF is_none(b.restaurant_id) THEN <<"restaurant_id">> ELSE <<>>)
    \o (IF is_none(b.veggie_bowl_price) THEN <<"veggie_bowl_price">>
        ELSE <<>>)
    \o (IF is_none(b.steak_bowl_price) THEN <<"steak_bowl_price">>
        ELSE <<>>)

missing_fields(b) ==
    (IF is_none(b.restaurant_id) THEN <<"restaurant_id">> ELSE <<>>)
    \o (IF is_none(b.veggie_bowl_price) THEN <<"veggie_bowl_price">>
        ELSE <<>>)
    \o (IF is_none(b.chicken_bowl_price) THEN <<"chicken_bowl_price">>
        ELSE <<>>)
    \o (IF is_none(b.steak_bowl_price) THEN <<"steak_bowl_price">>
        ELSE <<>>)

\* SummaryBuilder::build
build(b) ==
    IF ~is_complete(b)
    THEN Err(missing_fields(b))
    ELSE Ok([restaurant_id |-> unwrap(b.restaurant_id),
             veggie_bowl_price |-> unwrap(b.veggie_bowl_price),
             chicken_bowl_price |-> unwrap(b.chicken_bowl_price),
             steak_bowl_price |-> unwrap(b.steak_bowl_price)])

\* item.item_type.to_lowercase() != "bowl" is false
is_bowl_any_type(item) == TRUE

is_bowl(item) == to_lowercase(item.item_type) = STR_bowl

\* item.item_name.to_lowercase().replace("bowl", "").trim()
variant_key(item) == trim(replace(to_lowercase(item.item_name), STR_bowl, <<>>))

\* The match of Summary::try_from on the variant key.
match_variant(b, item) ==
    LET key == variant_key(item)
    IN CASE key = STR_veggie -> set_veggie_bowl_price(b, Price(item))
         [] key = STR_chicken -> set_chicken_bowl_price(b, Price(item))
         [] key = STR_steak -> set_steak_bowl_price(b, Price(item))
         [] OTHER -> b

\* The for loop of Summary::try_from over res.entrees.
RECURSIVE scan(_, _)
scan(b, items) ==
    IF Len(items) = 0 THEN b
    ELSE IF is_complete(b) THEN b
    ELSE IF ~is_bowl(Head(items)) THEN scan(b, Tail(items))
    ELSE scan(match_variant(b, Head(items)), Tail(items))

\* The builder of Summary::try_from when builder.build() is called.
try_from_builder(res) ==
    scan(set_restaurant_id(SummaryBuilder_default, res.restaurant_id),
         res.entrees)

\* impl TryFrom<Response> for Summary
Summary_try_from(res) == build(try_from_builder(res))

(***************************************************************************)
(* pepper-api: menu.rs                                                     *)
(***************************************************************************)
\* MenuBuilder::default() (derive_builder)
MenuBuilder_default ==
    [veggie_bowl_price |-> None, chicken_bowl_price |-> None,
     steak_bowl_price |-> None]

\* The break condition of Menu::try_from.
menu_is_complete(b) ==
    /\ is_some(b.chicken_bowl_price)
    /\ is_some(b.veggie_bowl_price)
    /\ is_some(b.steak_bowl_price)

\* MenuBuilder::build (derive_builder): the first uninitialized field, in
\* declaration order, is the error.
MenuBuilder_build(b) ==
    IF is_none(b.veggie_bowl_price)
    THEN Err(<<"TranslateError", "veggie_bowl_price">>)
    ELSE IF is_none(b.chicken_bowl_price)
    THEN Err(<<"TranslateError", "chicken_bowl_price">>)
    ELSE IF is_none(b.steak_bowl_price)
    THEN Err(<<"TranslateError", "steak_bowl_price">>)
    ELSE Ok([veggie_bowl_price |-> unwrap(b.veggie_bowl_price),
             chicken_bowl_price |-> unwrap(b.chicken_bowl_price),
             steak_bowl_price |-> unwrap(b.steak_bowl_price)])

\* The for loop of Menu::try_from over response.entrees.
RECURSIVE menu_scan(_, _)
menu_scan(b, items) ==
    IF Len(items) = 0 THEN b
    ELSE IF menu_is_complete(b) THEN b
    ELSE IF ~is_bowl(Head(items)) THEN menu_scan(b, Tail(items))
    ELSE menu_scan(match_variant(b, Head(items)), Tail(items))

\* impl TryFrom<menu::Response> for Menu
Menu_try_from(response) ==
    MenuBuilder_build(menu_scan(MenuBuilder_default, response.entrees))

(***************************************************************************)
(* bb-chipotle: constants.rs                                               *)
(***************************************************************************)
DEFAULT_API_KEY_SOURCE_URL ==
    <<"h", "t", "t", "p", "s", ":", "/", "/", "o", "r", "d", "e", "r", "w",
    "e", "b", "-", "p", "r", "d", "-", "c", "e", "n", "t", "r", "a", "l",
    "u", "s", "-", "c", "d", "n", "e", ".", "a", "z", "u", "r", "e", "e",
    "d", "g", "e", ".", "n", "e", "t", "/", "j", "s", "/", "a", "p", "p",
    ".", "j", "s">>

DEFAULT_RESTAURANT_SERVICE_URL ==
    <<"h", "t", "t", "p", "s", ":", "/", "/", "s", "e", "r", "v", "i", "c",
    "e", "s", ".", "c", "h", "i", "p", "o", "t", "l", "e", ".", "c", "o",
    "m", "/", "r", "e", "s", "t", "a", "u", "r", "a", "n", "t", "/", "v",
    "3", "/", "r", "e", "s", "t", "a", "u", "r", "a", "n", "t", "/">>

DEFAULT_MENU_SERVICE_URL_FORMAT ==
    <<"h", "t", "t", "p", "s", ":", "/", "/", "s", "e", "r", "v", "i", "c",
    "e", "s", ".", "c", "h", "i", "p", "o", "t", "l", "e", ".", "c", "o",
    "m", "/", "m", "e", "n", "u", "i", "n", "n", "o", "v", "a", "t", "i",
    "o", "n", "/", "v", "1", "/", "r", "e", "s", "t", "a", "u", "r", "a",
    "n", "t", "s", "/", "$", "s", "t", "o", "r", "e", "_", "i", "d", "/",
    "o", "n", "l", "i", "n", "e", "m", "e", "n", "u", "?", "c", "h", "a",
    "n", "n", "e", "l", "I", "d", "=", "w", "e", "b", "&", "i", "n", "c",
    "l", "u", "d", "e", "U", "n", "a", "v", "a", "i", "l", "a", "b", "l",
    "e", "I", "t", "e", "m", "s", "=", "t", "r", "u", "e">>

DEFAULT_MENU_SERVICE_URL_REPLACE_TOKEN ==
    <<"$", "s", "t", "o", "r", "e", "_", "i", "d">>

(***************************************************************************)
(* More string operations                                                  *)
(***************************************************************************)
\* str::contains
contains_always(s, pat) == TRUE

contains(s, pat) ==
    \E i \in 1..(Len(s) - Len(pat) + 1) : SubSeq(s, i, i + Len(pat) - 1) = pat

\* str::replacen(from, to, 1): the first match only.
replace_first(s, from, to) ==
    LET i == find_from(s, from, 1)
    IN IF i = 0 THEN s
       ELSE SubSeq(s, 1, i - 1) \o to \o SubSeq(s, i + Len(from), Len(s))

DecimalDigits == <<"0", "1", "2", "3", "4", "5", "6", "7", "8", "9">>

RECURSIVE digits(_)
digits(n) ==
    IF n < 10 THEN <<DecimalDigits[n + 1]>>
    ELSE digits(n \div 10) \o <<DecimalDigits[(n % 10) + 1]>>

\* i32::to_string
i32_to_string(n) == IF n < 0 THEN <<"-">> \o digits(0 - n) ELSE digits(n)

\* StatusCode::is_success: 200..=299
is_success_always(status) == TRUE

is_success(status) == 200 <= status /\ status < 300

(***************************************************************************)
(* bb-chipotle: api_key.rs                                                 *)
(***************************************************************************)
\* The literal that opens API_KEY_PATTERN: gatewaySubscriptionKey:Q\("
API_KEY_PATTERN_OPEN ==
    <<"g", "a", "t", "e", "w", "a", "y", "S", "u", "b", "s", "c", "r", "i",
    "p", "t", "i", "o", "n", "K", "e", "y", ":", "Q", "(", "\"">>

\* The literal that closes API_KEY_PATTERN: "\)
API_KEY_PATTERN_CLOSE == <<"\"", ")">>

\* The character class of the capture group: [a-zA-Z0-9-]
API_KEY_CHARS ==
    {UpperCase[i] : i \in 1..Len(UpperCase)}
    \cup {LowerCase[i] : i \in 1..Len(LowerCase)}
    \cup {DecimalDigits[i] : i \in 1..Len(DecimalDigits)}
    \cup {"-"}

\* The length of the longest run of class characters of body that starts at
\* position i (the greedy match of [a-zA-Z0-9-]+).
RECURSIVE key_run(_, _)
key_run(body, i) ==
    IF i <= Len(body) /\ body[i] \in API_KEY_CHARS
    THEN 1 + key_run(body, i + 1)
    ELSE 0

\* API_KEY_REGEX matches at position i of body.
regex_matches_at(body, i) ==
    LET k == i + Len(API_KEY_PATTERN_OPEN)
        n == key_run(body, k)
    IN /\ k - 1 <= Len(body)
       /\ SubSeq(body, i, k - 1) = API_KEY_PATTERN_OPEN
       /\ n >= 1
       /\ k + n + Len(API_KEY_PATTERN_CLOSE) - 1 <= Len(body)
       /\ SubSeq(body, k + n, k + n + Len(API_KEY_PATTERN_CLOSE) - 1)
              = API_KEY_PATTERN_CLOSE

\* API_KEY_REGEX.captures(&body): the leftmost match, as its group 1.
captures(body) ==
    LET starts == {i \in 1..Len(body) : regex_matches_at(body, i)}
    IN IF starts = {} THEN None
       ELSE LET i == CHOOSE j \in starts : \A m \in starts : j <= m
                k == i + Len(API_KEY_PATTERN_OPEN)
            IN Some(SubSeq(body, k, k + key_run(body, k) - 1))

\* api_key::get, on the response of its GET.
api_key_get(response) ==
    IF response.transport = "error" THEN Err(<<"RequestError">>)
    ELSE IF ~is_success(response.status)
    THEN Err(<<"ResponseError", response.status>>)
    ELSE IF response.text = "error" THEN Err(<<"ResponseBodyError">>)
    ELSE IF is_none(captures(response.body)) THEN Err(<<"ApiKeyNotFound">>)
    ELSE Ok(unwrap(captures(response.body)))

(***************************************************************************)
(* bb-chipotle: menu/get.rs                                                *)
(***************************************************************************)
\* Endpoint::try_new
try_new(endpoint_format, replace_token) ==
    IF Len(replace_token) = 0 THEN Err(<<"MissingReplaceToken">>)
    ELSE IF Len(endpoint_format) = 0 THEN Err(<<"MissingEndpoint">>)
    ELSE IF ~contains(endpoint_format, replace_token)
    THEN Err(<<"ReplaceTokenNotInEndpoint">>)
    ELSE Ok([url |-> endpoint_format, replace_token |-> replace_token])

\* Endpoint::to_url
to_url_first(endpoint, store_id) ==
    replace_first(endpoint.url, endpoint.replace_token, store_id)

to_url(endpoint, store_id) ==
    replace(endpoint.url, endpoint.replace_token, store_id)

\* DEFAULT_ENDPOINT_CONFIG
DEFAULT_ENDPOINT_CONFIG ==
    unwrap(try_new(DEFAULT_MENU_SERVICE_URL_FORMAT,
                   DEFAULT_MENU_SERVICE_URL_REPLACE_TOKEN).value)

\* The url that menu::get requests.
menu_get_url(store, endpoint_config) ==
    IF is_some(endpoint_config)
    THEN to_url(unwrap(endpoint_config), i32_to_string(store))
    ELSE to_url(DEFAULT_ENDPOINT_CONFIG, i32_to_string(store))

\* menu::get, on the response of its GET.
menu_get(response) ==
    IF response.transport = "error" THEN Err(<<"RequestError">>)
    ELSE IF ~is_success(response.status)
    THEN Err(<<"ResponseError", response.status>>)
    ELSE IF response.text = "error" THEN Err(<<"ResponseBodyError">>)
    ELSE IF is_none(response.json) THEN Err(<<"ParseError">>)
    ELSE LET s == Summary_try_from(unwrap(response.json))
         IN IF s.tag = "Err"
            THEN Err(<<"TranslateError", unwrap(s.error)>>)
            ELSE s

(***************************************************************************)
(* bb-chipotle: client.rs                                                  *)
(***************************************************************************)
\* EndpointConfig::validate
validate(endpoints) ==
    IF /\ is_some(endpoints.api_key)
       /\ is_some(unwrap(endpoints.api_key).replace_token)
    THEN Err(<<"UnnecessaryReplaceToken", "api_key",
               unwrap(unwrap(endpoints.api_key).replace_token)>>)
    ELSE IF /\ is_some(endpoints.menu)
            /\ is_none(unwrap(endpoints.menu).replace_token)
    THEN Err(<<"MissingReplaceToken", "menu", unwrap(endpoints.menu).url>>)
    ELSE IF /\ is_some(endpoints.restaurant)
            /\ is_some(unwrap(endpoints.restaurant).replace_token)
    THEN Err(<<"UnnecessaryReplaceToken", "restaurant",
               unwrap(unwrap(endpoints.restaurant).replace_token)>>)
    ELSE Ok("unit")

\* Client::new
Client_new(endpoints, api_key) ==
    IF is_some(endpoints) /\ validate(unwrap(endpoints)).tag = "Err"
    THEN Err(<<"InvalidEndpointConfig",
               unwrap(validate(unwrap(endpoints)).error)>>)
    ELSE Ok([endpoints |-> endpoints, api_key |-> api_key])

\* Client::load_api_key: the early return with the cached key.
use_cached_never(c, force_refresh) == FALSE

use_cached_ignore_force(c, force_refresh) == is_some(c.api_key)

use_cached(c, force_refresh) == is_some(c.api_key) /\ ~force_refresh

\* Client::load_api_key after api_key::get: `?` returns the error before
\* self.api_key is assigned.
after_fetch_assign_always(c, r) == [c EXCEPT !.api_key = r.value]

after_fetch(c, r) ==
    IF r.tag = "Ok" THEN [c EXCEPT !.api_key = r.value] ELSE c

\* Client::get_all_locations, Client::get_menu_summary: self.api_key.is_none()
missing_api_key_never(c) == FALSE

missing_api_key(c) == is_none(c.api_key)

\* Client::load_api_key: bundle_url.unwrap_or(DEFAULT_API_KEY_SOURCE_URL)
bundle_url(c) ==
    IF is_some(c.endpoints) /\ is_some(unwrap(c.endpoints).api_key)
    THEN unwrap(unwrap(c.endpoints).api_key).url
    ELSE DEFAULT_API_KEY_SOURCE_URL

\* Client::get_menu_summary: the menu::Endpoint handed to menu::get.
menu_endpoint(c) ==
    IF /\ is_some(c.endpoints)
       /\ is_some(unwrap(c.endpoints).menu)
       /\ is_some(unwrap(unwrap(c.endpoints).menu).replace_token)
    THEN Some([url |-> unwrap(unwrap(c.endpoints).menu).url,
               replace_token |->
                   unwrap(unwrap(unwrap(c.endpoints).menu).replace_token)])
    ELSE None

\* The requests of the log.
Request(method, url, kind, store) ==
    [method |-> method, url |-> url, kind |-> kind, store |-> store]

NoCall == [op |-> "none"]

ClientIdle ==
    /\ client = None
    /\ http_requests = <<>>
    /\ call = NoCall
    /\ n_calls = 0

\* No command binary runs.
NoArgs == [bin |-> "none"]

CmdIdle ==
    /\ args = NoArgs
    /\ cmd_pc = "idle"
    /\ stdout = <<>>
    /\ exit_status = None
    /\ cmd_api_key = None
    /\ retrieved_locations = <<>>
    /\ cmd_in_flight = {}
    /\ located = <<>>

(***************************************************************************)
(* The inputs of the menu reduction                                        *)
(***************************************************************************)
MaxItems == 4

RestaurantIds == {1, 1234}

Items ==
    {[item_type |-> <<"B", "o", "w", "l">>,
      item_name |-> <<"V", "e", "g", "g", "i", "e", " ", "B", "o", "w", "l">>,
      unit_price |-> 1, unit_delivery_price |-> 2],
     [item_type |-> <<"B", "O", "W", "L">>,
      item_name |-> <<"v", "e", "g", "g", "i", "e", " ", "b", "o", "w", "l">>,
      unit_price |-> 3, unit_delivery_price |-> 4],
     [item_type |-> <<"B", "o", "w", "l">>,
      item_name |-> <<"C", "h", "i", "c", "k", "e", "n", " ", "B", "o", "w", "l">>,
      unit_price |-> 5, unit_delivery_price |-> 6],
     [item_type |-> <<"b", "o", "w", "l">>,
      item_name |-> <<"C", "H", "I", "C", "K", "E", "N">>,
      unit_price |-> 7, unit_delivery_price |-> 8],
     [item_type |-> <<"B", "o", "w", "l">>,
      item_name |-> <<"S", "t", "e", "a", "k", " ", "B", "o", "w", "l">>,
      unit_price |-> 9, unit_delivery_price |-> 10],
     [item_type |-> <<"b", "O", "w", "L">>,
      item_name |-> <<" ", "B", "o", "w", "l", " ", "s", "t", "e", "a", "k", " ">>,
      unit_price |-> 11, unit_delivery_price |-> 12],
     [item_type |-> <<"B", "u", "r", "r", "i", "t", "o">>,
      item_name |-> <<"V", "e", "g", "g", "i", "e", " ", "B", "o", "w", "l">>,
      unit_price |-> 13, unit_delivery_price |-> 14],
     [item_type |-> <<"B", "o", "w", "l">>,
      item_name |-> <<"C", "a", "r", "n", "i", "t", "a", "s", " ", "B", "o", "w", "l">>,
      unit_price |-> 15, unit_delivery_price |-> 16],
     [item_type |-> <<" ", "B", "o", "w", "l", " ">>,
      item_name |-> <<"S", "t", "e", "a", "k", " ", "B", "o", "w", "l">>,
      unit_price |-> 17, unit_delivery_price |-> 18]}

Prices == {Price(i) : i \in {j \in Items : j.unit_price <= 3}}

ItemLists == UNION {[1..n -> Items] : n \in 0..MaxItems}

(***************************************************************************)
(* The menu reduction                                                      *)
(***************************************************************************)
MenuInit ==
    /\ entrees = <<>>
    /\ restaurant_id = 0
    /\ builder = SummaryBuilder_default
    /\ mpc = "idle"
    /\ summary = None
    /\ menu = None

\* Summary::try_from(res) and Menu::try_from(res) on a parsed response.
TryFrom ==
    /\ mpc = "idle"
    /\ \E id \in RestaurantIds : \E es \in ItemLists :
         LET res == [restaurant_id |-> id, entrees |-> es]
         IN /\ entrees' = res.entrees
            /\ restaurant_id' = res.restaurant_id
            /\ builder' = try_from_builder(res)
            /\ summary' = Some(Summary_try_from(res))
            /\ menu' = Some(Menu_try_from(res))
    /\ mpc' = "reduced"
    /\ UNCHANGED <<batch_vars, client_vars, cmd_vars>>

\* Summary::builder()
NewBuilder ==
    /\ mpc = "idle"
    /\ builder' = SummaryBuilder_default
    /\ mpc' = "building"
    /\ UNCHANGED <<entrees, restaurant_id, summary, menu, batch_vars, client_vars, cmd_vars>>

\* builder.restaurant_id(id)
SetRestaurantId(id) ==
    /\ mpc = "building"
    /\ builder' = set_restaurant_id(builder, id)
    /\ UNCHANGED <<entrees, restaurant_id, mpc, summary, menu, batch_vars, client_vars, cmd_vars>>

\* builder.veggie_bowl_price(price)
SetVeggie(price) ==
    /\ mpc = "building"
    /\ builder' = set_veggie_bowl_price(builder, price)
    /\ UNCHANGED <<entrees, restaurant_id, mpc, summary, menu, batch_vars, client_vars, cmd_vars>>

\* builder.chicken_bowl_price(price)
SetChicken(price) ==
    /\ mpc = "building"
    /\ builder' = set_chicken_bowl_price(builder, price)
    /\ UNCHANGED <<entrees, restaurant_id, mpc, summary, menu, batch_vars, client_vars, cmd_vars>>

\* builder.steak_bowl_price(price)
SetSteak(price) ==
    /\ mpc = "building"
    /\ builder' = set_steak_bowl_price(builder, price)
    /\ UNCHANGED <<entrees, restaurant_id, mpc, summary, menu, batch_vars, client_vars, cmd_vars>>

\* builder.build()
Build ==
    /\ mpc = "building"
    /\ summary' = Some(build(builder))
    /\ mpc' = "built"
    /\ UNCHANGED <<entrees, restaurant_id, builder, menu, batch_vars, client_vars, cmd_vars>>

MenuNext ==
    \/ TryFrom
    \/ NewBuilder
    \/ \E id \in RestaurantIds : SetRestaurantId(id)
    \/ \E price \in Prices : SetVeggie(price)
    \/ \E price \in Prices : SetChicken(price)
    \/ \E price \in Prices : SetSteak(price)
    \/ Build

BatchIdle ==
    /\ locations = <<>>
    /\ phase = "NotStarted"
    /\ chunk_no = 0
    /\ issued = {}
    /\ in_flight = {}
    /\ outcome = <<>>
    /\ menu_batch = <<>>
    /\ menus = <<>>
    /\ progress = 0
    /\ sleeps = 0

MenuSpecInit == BatchIdle /\ MenuInit /\ ClientIdle /\ CmdIdle

MenuSpec == MenuSpecInit /\ [][MenuNext]_vars

(***************************************************************************)
(* The batch run                                                           *)
(***************************************************************************)
BatchInit ==
    /\ \E n \in 0..MaxLocations : locations = [p \in 1..n |-> p]
    /\ phase = "NotStarted"
    /\ chunk_no = 0
    /\ issued = {}
    /\ in_flight = {}
    /\ outcome = [p \in 1..Len(locations) |-> "none"]
    /\ menu_batch = <<>>
    /\ menus = <<>>
    /\ progress = 0
    /\ sleeps = 0

Init == BatchInit /\ MenuInit /\ ClientIdle /\ CmdIdle

\* time::sleep(delay_between_batches).await has returned for every chunk
\* processed so far, so the loop body is over.
DelayElapsedMut == TRUE

DelayElapsed == sleeps = chunk_no

\* for location_batch in locations.chunks(5): the iterator yields a chunk.
NextChunk ==
    /\ phase \in {"NotStarted", "ChunkDelay"}
    /\ DelayElapsed
    /\ chunk_no < NumChunks(Len(locations), ChunkSize)
    /\ phase' = "ChunkInFlight"
    /\ chunk_no' = chunk_no + 1
    /\ menu_batch' = <<>>
    /\ UNCHANGED <<locations, issued, in_flight, outcome, menus, progress,
                   sleeps, menu_vars, client_vars, cmd_vars>>

\* buffer_unordered(5): the positions of the chunk still to be turned into
\* futures, in list order (stream::iter).
Unissued == {p \in location_batch(chunk_no) : p \notin issued}

\* How many futures buffer_unordered pulls from the stream in one poll.
FillCount(n_in_flight, n_unissued) ==
    Min(BufferLimit - n_in_flight, n_unissued)

\* The first k positions of a set of positions.
FirstK(S, k) == {p \in S : Cardinality({q \in S : q < p}) < k}

\* The futures held by the buffer_unordered stream of the current chunk.
Buffered == in_flight \cap location_batch(chunk_no)

\* One poll of buffer_unordered: it fills its queue up to the limit and polls
\* the new futures, which sends their requests.
PollFill ==
    /\ phase = "ChunkInFlight"
    /\ Unissued # {}
    /\ FillCount(Cardinality(Buffered), Cardinality(Unissued)) > 0
    /\ LET new == FirstK(Unissued,
                         FillCount(Cardinality(Buffered),
                                   Cardinality(Unissued)))
       IN /\ issued' = issued \cup new
          /\ in_flight' = in_flight \cup new
    /\ UNCHANGED <<locations, phase, chunk_no, outcome, menu_batch, menus,
                   progress, sleeps, menu_vars, client_vars, cmd_vars>>

\* What the async block does with the result of Menu::get_custom:
\* .unwrap() then json!(...).  An Err panics the task that polls it, which is
\* main itself.
Unwrap(o) == IF o = "Ok" THEN "value" ELSE "panic"

\* A request resolves with outcome o.
Resolve(p, o) ==
    /\ phase = "ChunkInFlight"
    /\ p \in in_flight
    /\ outcome' = [outcome EXCEPT ![p] = o]
    /\ IF Unwrap(o) = "value"
       THEN /\ in_flight' = in_flight \ {p}
            /\ menu_batch' = Append(menu_batch, Entry(p))
            /\ phase' = phase
       ELSE \* the panic unwinds main: the other futures are dropped
            /\ in_flight' = {}
            /\ menu_batch' = menu_batch
            /\ phase' = "Panicked"
    /\ UNCHANGED <<locations, chunk_no, issued, menus, progress, sleeps,
                   menu_vars, client_vars, cmd_vars>>

\* .collect::<Vec<_>>().await returns when the stream is exhausted.
ChunkCompleteNoWait == Unissued = {}

ChunkComplete ==
    /\ Unissued = {}
    /\ in_flight = {}

\* Vec::extend: the items are appended, in their order, after the Vec's own.
extend_front(vec, items) == items \o vec

extend(vec, items) == vec \o items

\* menus.extend(menu_batch); progress.inc(..); time::sleep(..) starts.
CollectChunk ==
    /\ phase = "ChunkInFlight"
    /\ ChunkComplete
    /\ menus' = extend(menus, menu_batch)
    /\ progress' = progress + Cardinality(location_batch(chunk_no))
    /\ phase' = "ChunkDelay"
    /\ UNCHANGED <<locations, chunk_no, issued, in_flight, outcome,
                   menu_batch, sleeps, menu_vars, client_vars, cmd_vars>>

\* time::sleep(delay_between_batches).await returns.
SleepElapsed ==
    /\ phase = "ChunkDelay"
    /\ sleeps < chunk_no
    /\ sleeps' = sleeps + 1
    /\ UNCHANGED <<locations, phase, chunk_no, issued, in_flight, outcome,
                   menu_batch, menus, progress, menu_vars, client_vars, cmd_vars>>

\* The for loop ends: progress.finish() and the output of menus.
Finish ==
    /\ phase \in {"NotStarted", "ChunkDelay"}
    /\ DelayElapsed
    /\ chunk_no = NumChunks(Len(locations), ChunkSize)
    /\ phase' = "Done"
    /\ UNCHANGED <<locations, chunk_no, issued, in_flight, outcome,
                   menu_batch, menus, progress, sleeps, menu_vars, client_vars, cmd_vars>>

Next ==
    \/ NextChunk
    \/ PollFill
    \/ \E p \in in_flight : \E o \in GetOutcomes : Resolve(p, o)
    \/ CollectChunk
    \/ SleepElapsed
    \/ Finish

Spec == Init /\ [][Next]_vars

\* The tokio runtime keeps polling main, every request that was sent resolves
\* and every sleep returns.
FairSpec == Init /\ [][Next]_vars /\ WF_vars(Next)

(***************************************************************************)
(* The inputs of the client                                                *)
(***************************************************************************)
MaxCalls == 2

URL_key ==
    <<"h", "t", "t", "p", ":", "/", "/", "k", "/", "a", "p", "p", ".", "j",
    "s">>

URL_restaurant ==
    <<"h", "t", "t", "p", ":", "/", "/", "r", "/">>

URL_menu_one ==
    <<"h", "t", "t", "p", ":", "/", "/", "m", "/", "$", "i", "d", "/", "m",
    "e", "n", "u">>

URL_menu_two ==
    <<"h", "t", "t", "p", ":", "/", "/", "m", "/", "$", "i", "d", "/", "$",
    "i", "d">>

URL_menu_none ==
    <<"h", "t", "t", "p", ":", "/", "/", "m", "/", "i", "d", "/", "m", "e",
    "n", "u">>

TOKEN_id == <<"$", "i", "d">>

KEY_given == <<"k", "0">>

\* client::Endpoint values for each of the three fields of EndpointConfig.
ApiKeyEndpoints ==
    {None,
     Some([url |-> URL_key, replace_token |-> None]),
     Some([url |-> URL_key, replace_token |-> Some(TOKEN_id)])}

MenuEndpoints ==
    {None,
     Some([url |-> URL_menu_one, replace_token |-> None]),
     Some([url |-> URL_menu_one, replace_token |-> Some(TOKEN_id)]),
     Some([url |-> URL_menu_two, replace_token |-> Some(TOKEN_id)]),
     Some([url |-> URL_menu_none, replace_token |-> Some(TOKEN_id)]),
     Some([url |-> URL_menu_one, replace_token |-> Some(<<>>)])}

RestaurantEndpoints ==
    {None,
     Some([url |-> URL_restaurant, replace_token |-> None]),
     Some([url |-> URL_restaurant, replace_token |-> Some(TOKEN_id)])}

EndpointConfigs ==
    {None} \cup
    {Some([api_key |-> a, menu |-> m, restaurant |-> r]) :
        a \in ApiKeyEndpoints, m \in MenuEndpoints, r \in RestaurantEndpoints}

GivenApiKeys == {None, Some(KEY_given)}

\* The arguments of Endpoint::try_new.
EndpointFormats == {<<>>, URL_menu_one, URL_menu_two, URL_menu_none}

ReplaceTokens == {<<>>, TOKEN_id}

StoreIds == {42, 1234}

\* Bodies of the client bundle.
BODY_no_key ==
    <<"t", "h", "i", "n", "g", "t", "h", "i", "n", "g", ";", "3", "f", "j",
    "h", "k", "a", "s", "f", "d", "7", "8", "r", "3">>

BODY_one_key ==
    <<"t", "h", "i", "n", "g", "t", "h", "i", "n", "g", ";", "g", "a", "t",
    "e", "w", "a", "y", "S", "u", "b", "s", "c", "r", "i", "p", "t", "i",
    "o", "n", "K", "e", "y", ":", "Q", "(", "\"", "f", "a", "k", "e", "-",
    "a", "p", "i", "-", "k", "e", "y", "\"", ")", ";", "3", "f", "j", "h",
    "k", "a", "s", "f", "d", "7", "8", "r", "3">>

BODY_two_keys ==
    <<"g", "a", "t", "e", "w", "a", "y", "S", "u", "b", "s", "c", "r", "i",
    "p", "t", "i", "o", "n", "K", "e", "y", ":", "Q", "(", "\"", "k", "-",
    "2", "\"", ")", ";", "g", "a", "t", "e", "w", "a", "y", "S", "u", "b",
    "s", "c", "r", "i", "p", "t", "i", "o", "n", "K", "e", "y", ":", "Q",
    "(", "\"", "k", "1", "\"", ")">>

BODY_empty_key_first ==
    <<"g", "a", "t", "e", "w", "a", "y", "S", "u", "b", "s", "c", "r", "i",
    "p", "t", "i", "o", "n", "K", "e", "y", ":", "Q", "(", "\"", "\"", ")",
    ";", "g", "a", "t", "e", "w", "a", "y", "S", "u", "b", "s", "c", "r",
    "i", "p", "t", "i", "o", "n", "K", "e", "y", ":", "Q", "(", "\"", "k",
    "1", "\"", ")">>

BODY_bad_key ==
    <<"g", "a", "t", "e", "w", "a", "y", "S", "u", "b", "s", "c", "r", "i",
    "p", "t", "i", "o", "n", "K", "e", "y", ":", "Q", "(", "\"", "a", "_",
    "b", "\"", ")">>

HttpResponse(transport, status, text, body) ==
    [transport |-> transport, status |-> status, text |-> text,
     body |-> body]

\* What the server of the client bundle may answer.
KeyResponses ==
    {HttpResponse("error", 0, "error", <<>>),
     HttpResponse("ok", 403, "ok", BODY_one_key),
     HttpResponse("ok", 500, "error", <<>>),
     HttpResponse("ok", 200, "error", BODY_one_key),
     HttpResponse("ok", 200, "ok", BODY_no_key),
     HttpResponse("ok", 200, "ok", BODY_one_key),
     HttpResponse("ok", 201, "ok", BODY_two_keys),
     HttpResponse("ok", 200, "ok", BODY_empty_key_first),
     HttpResponse("ok", 200, "ok", BODY_bad_key)}

JsonResponse(transport, status, text, json) ==
    [transport |-> transport, status |-> status, text |-> text,
     json |-> json]

ITEM_veggie ==
    [item_type |-> <<"B", "o", "w", "l">>,
     item_name |-> <<"V", "e", "g", "g", "i", "e", " ", "B", "o", "w", "l">>,
     unit_price |-> 1, unit_delivery_price |-> 2]

ITEM_chicken ==
    [item_type |-> <<"B", "o", "w", "l">>,
     item_name |-> <<"C", "h", "i", "c", "k", "e", "n", " ", "B", "o", "w", "l">>,
     unit_price |-> 5, unit_delivery_price |-> 6]

ITEM_steak ==
    [item_type |-> <<"B", "o", "w", "l">>,
     item_name |-> <<"S", "t", "e", "a", "k", " ", "B", "o", "w", "l">>,
     unit_price |-> 9, unit_delivery_price |-> 10]

\* What the menu service may answer.
MenuResponses ==
    {JsonResponse("error", 0, "error", None),
     JsonResponse("ok", 403, "ok", None),
     JsonResponse("ok", 200, "ok", None),
     JsonResponse("ok", 200, "ok",
         Some([restaurant_id |-> 1234,
               entrees |-> <<ITEM_chicken, ITEM_steak, ITEM_veggie>>])),
     JsonResponse("ok", 200, "ok",
         Some([restaurant_id |-> 1234,
               entrees |-> <<ITEM_chicken, ITEM_steak>>]))}

(***************************************************************************)
(* bb-chipotle: locations.rs (pepper-api: locations.rs has the same code)  *)
(***************************************************************************)
\* A panic of the calling thread: the call returns nothing.
Panic == [tag |-> "Panic", value |-> <<>>, error |-> <<>>]

\* ZIP_CODE_OVERRIDES
ZIP_CODE_OVERRIDES == [id \in {3065} |-> <<"7", "5", "2", "3", "5">>]

\* A character whose UTF-8 encoding takes two bytes (U+00E9).
CHAR_e_acute == "U+00E9"

TwoByteChars == {CHAR_e_acute}

\* char::len_utf8
len_utf8(c) == IF c \in TwoByteChars THEN 2 ELSE 1

\* str::len: the length of the string in bytes.
RECURSIVE str_len(_)
str_len(s) == IF Len(s) = 0 THEN 0 ELSE len_utf8(Head(s)) + str_len(Tail(s))

\* x[0..n] of a string with more than n bytes: the characters of the first n
\* bytes, and a panic when byte n is not a character boundary.
str_slice_to(s, n) ==
    LET ks == {k \in 0..Len(s) : str_len(SubSeq(s, 1, k)) = n}
    IN IF ks = {} THEN Panic
       ELSE Ok(SubSeq(s, 1, CHOOSE k \in ks : TRUE))

\* get_zip_code
get_zip_code(location_id, address) ==
    LET x == IF location_id \in DOMAIN ZIP_CODE_OVERRIDES
             THEN Some(ZIP_CODE_OVERRIDES[location_id])
             ELSE address.postal_code
    IN IF is_none(x) THEN Panic
       ELSE IF str_len(unwrap(x)) > 5 THEN str_slice_to(unwrap(x), 5)
       ELSE Ok(unwrap(x))

STR_US == <<"U", "S">>

\* The closure of the filter_map of get_us_locations, on one record:
\* Ok(None), Ok(Some(Location)) or a panic.
us_location(location) ==
    IF Len(location.addresses) > 0
    THEN LET address == location.addresses[1]
         IN IF address.country_code = STR_US
            THEN LET zip == get_zip_code(location.id, address)
                 IN IF zip.tag = "Panic" THEN Panic
                    ELSE Ok(Some([id |-> location.id,
                                  zip_code |-> unwrap(zip.value)]))
            ELSE Ok(None)
    ELSE Ok(None)

\* get_us_locations: filter_map over data in order, then collect.
RECURSIVE get_us_locations(_)
get_us_locations(data) ==
    IF Len(data) = 0 THEN Ok(<<>>)
    ELSE LET first == us_location(Head(data))
         IN IF first.tag = "Panic" THEN Panic
            ELSE LET rest == get_us_locations(Tail(data))
                 IN IF rest.tag = "Panic" THEN Panic
                    ELSE Ok(unwrap(first.value) \o unwrap(rest.value))

\* locations::get (Locations::get_all_us_custom), on the response of its
\* POST.
locations_get(response) ==
    IF response.transport = "error" THEN Err(<<"RequestError">>)
    ELSE IF ~is_success(response.status)
    THEN Err(<<"ResponseError", response.status>>)
    ELSE IF response.text = "error" THEN Err(<<"ResponseBodyError">>)
    ELSE IF is_none(response.json) THEN Err(<<"ParseError">>)
    ELSE get_us_locations(unwrap(response.json).data)

\* restaurant_service_url.unwrap_or(DEFAULT_RESTAURANT_SERVICE_URL)
restaurant_url(restaurant_service_url) ==
    IF is_some(restaurant_service_url) THEN unwrap(restaurant_service_url)
    ELSE DEFAULT_RESTAURANT_SERVICE_URL

(***************************************************************************)
(* The inputs of the location directory                                    *)
(***************************************************************************)
MaxRecords == 3

Address(postal_code, country_code) ==
    [postal_code |-> postal_code, country_code |-> country_code]

LocationData(id, addresses) == [id |-> id, addresses |-> addresses]

STR_CA == <<"C", "A">>

STR_us == <<"u", "s">>

ZIP_12345 == <<"1", "2", "3", "4", "5">>

ZIP_plus4 == <<"1", "2", "3", "4", "5", "-", "6", "7", "8", "9">>

ZIP_other_plus4 == <<"9", "9", "9", "9", "9", "-", "1", "2", "3", "4">>

ZIP_short == <<"1", "2", "3">>

\* Four characters in six bytes: byte 5 is a character boundary.
ZIP_accent == <<"1", CHAR_e_acute, CHAR_e_acute, "2">>

\* Four characters in six bytes: byte 5 is inside the last character.
ZIP_accent_split == <<"1", "2", CHAR_e_acute, CHAR_e_acute>>

\* The raw records that the restaurant service may list.
Records ==
    {LocationData(1234, <<Address(Some(ZIP_12345), STR_US)>>),
     LocationData(3065, <<Address(Some(ZIP_other_plus4), STR_US)>>),
     LocationData(3065, <<Address(None, STR_US)>>),
     LocationData(7, <<>>),
     LocationData(8, <<Address(Some(ZIP_short), STR_CA),
                       Address(Some(ZIP_12345), STR_US)>>),
     LocationData(9, <<Address(Some(ZIP_plus4), STR_US)>>),
     LocationData(10, <<Address(Some(ZIP_short), STR_US),
                        Address(Some(ZIP_12345), STR_CA)>>),
     LocationData(11, <<Address(None, STR_US)>>),
     LocationData(12, <<Address(Some(ZIP_accent), STR_US)>>),
     LocationData(13, <<Address(Some(ZIP_accent_split), STR_US)>>),
     LocationData(14, <<Address(Some(ZIP_12345), STR_us)>>)}

RecordLists == UNION {[1..n -> Records] : n \in 0..MaxRecords}

\* What the restaurant service may answer.
LocationResponses ==
    {JsonResponse("error", 0, "error", None),
     JsonResponse("ok", 403, "ok",
         Some([data |-> <<LocationData(1234,
                              <<Address(Some(ZIP_12345), STR_US)>>)>>])),
     JsonResponse("ok", 200, "error", None),
     JsonResponse("ok", 200, "ok", None)}
    \cup {JsonResponse("ok", 200, "ok", Some([data |-> l])) :
             l \in RecordLists}

RestaurantServiceUrls == {None, Some(URL_restaurant)}

\* The answers of the restaurant service that the client and the command
\* binaries are run against.
DirectoryResponses ==
    {JsonResponse("error", 0, "error", None),
     JsonResponse("ok", 403, "ok", None),
     JsonResponse("ok", 200, "ok", None),
     JsonResponse("ok", 200, "ok",
         Some([data |-> <<LocationData(1234,
                              <<Address(Some(ZIP_12345), STR_US)>>),
                          LocationData(10,
                              <<Address(Some(ZIP_short), STR_US),
                                Address(Some(ZIP_12345), STR_CA)>>),
                          LocationData(9,
                              <<Address(Some(ZIP_plus4), STR_US)>>)>>])),
     JsonResponse("ok", 200, "ok",
         Some([data |-> <<LocationData(11, <<Address(None, STR_US)>>)>>]))}

(***************************************************************************)
(* The client                                                              *)
(***************************************************************************)
\* Endpoint::try_new(endpoint_format, replace_token)
EndpointTryNew ==
    /\ client = None
    /\ n_calls < MaxCalls
    /\ \E f \in EndpointFormats : \E tok \in ReplaceTokens :
           call' = [op |-> "try_new", endpoint_format |-> f,
                    replace_token |-> tok, result |-> try_new(f, tok)]
    /\ n_calls' = n_calls + 1
    /\ UNCHANGED <<client, http_requests, batch_vars, menu_vars, cmd_vars>>

\* Client::new(http_client, endpoints, api_key)
ClientNew ==
    /\ client = None
    /\ \E e \in EndpointConfigs : \E k \in GivenApiKeys :
           LET r == Client_new(e, k)
           IN /\ call' = [op |-> "new", endpoints |-> e, api_key |-> k,
                          result |-> r]
              /\ client' = IF r.tag = "Ok" THEN r.value ELSE None
    /\ UNCHANGED <<http_requests, n_calls, batch_vars, menu_vars, cmd_vars>>

\* client.load_api_key(force_refresh) that returns the cached key.
LoadApiKeyCached ==
    /\ client # None
    /\ n_calls < MaxCalls
    /\ \E force_refresh \in BOOLEAN :
           /\ use_cached(unwrap(client), force_refresh)
           /\ call' = [op |-> "load_api_key",
                       force_refresh |-> force_refresh,
                       before |-> unwrap(client),
                       requests_before |-> Len(http_requests),
                       result |-> Ok(unwrap(unwrap(client).api_key))]
    /\ n_calls' = n_calls + 1
    /\ UNCHANGED <<client, http_requests, batch_vars, menu_vars, cmd_vars>>

\* client.load_api_key(force_refresh) that calls api_key::get.
LoadApiKeyFetch ==
    /\ client # None
    /\ n_calls < MaxCalls
    /\ \E force_refresh \in BOOLEAN : \E response \in KeyResponses :
           LET r == api_key_get(response)
           IN /\ ~use_cached(unwrap(client), force_refresh)
              /\ http_requests' =
                     Append(http_requests,
                            Request("GET", bundle_url(unwrap(client)),
                                    "api_key", 0))
              /\ client' = Some(after_fetch(unwrap(client), r))
              /\ call' = [op |-> "load_api_key",
                          force_refresh |-> force_refresh,
                          before |-> unwrap(client),
                          requests_before |-> Len(http_requests),
                          response |-> response,
                          result |-> r]
    /\ n_calls' = n_calls + 1
    /\ UNCHANGED <<batch_vars, menu_vars, cmd_vars>>

\* client.get_menu_summary(restaurant_id) on a client without an API key.
GetMenuSummaryNoKey ==
    /\ client # None
    /\ n_calls < MaxCalls
    /\ missing_api_key(unwrap(client))
    /\ \E store \in StoreIds :
           call' = [op |-> "get_menu_summary", store |-> store,
                    before |-> unwrap(client),
                    requests_before |-> Len(http_requests),
                    result |-> Err(<<"BuildError", "missing API key">>)]
    /\ n_calls' = n_calls + 1
    /\ UNCHANGED <<client, http_requests, batch_vars, menu_vars, cmd_vars>>

\* client.get_menu_summary(restaurant_id) that calls menu::get.
GetMenuSummary ==
    /\ client # None
    /\ n_calls < MaxCalls
    /\ ~missing_api_key(unwrap(client))
    /\ \E store \in StoreIds : \E response \in MenuResponses :
           /\ http_requests' =
                  Append(http_requests,
                         Request("GET",
                                 menu_get_url(store,
                                              menu_endpoint(unwrap(client))),
                                 "menu", store))
           /\ call' = [op |-> "get_menu_summary", store |-> store,
                       before |-> unwrap(client),
                       requests_before |-> Len(http_requests),
                       response |-> response,
                       result |-> menu_get(response)]
    /\ n_calls' = n_calls + 1
    /\ UNCHANGED <<client, batch_vars, menu_vars, cmd_vars>>

\* Client::get_all_locations: the url handed to locations::get.
restaurant_endpoint_url(c) ==
    IF is_some(c.endpoints) /\ is_some(unwrap(c.endpoints).restaurant)
    THEN Some(unwrap(unwrap(c.endpoints).restaurant).url)
    ELSE None

\* client.get_all_locations() on a client without an API key.
GetAllLocationsNoKey ==
    /\ client # None
    /\ n_calls < MaxCalls
    /\ missing_api_key(unwrap(client))
    /\ call' = [op |-> "get_all_locations",
                before |-> unwrap(client),
                requests_before |-> Len(http_requests),
                result |-> Err(<<"BuildError", "missing API key">>)]
    /\ n_calls' = n_calls + 1
    /\ UNCHANGED <<client, http_requests, batch_vars, menu_vars, cmd_vars>>

\* client.get_all_locations() that calls locations::get.
GetAllLocations ==
    /\ client # None
    /\ n_calls < MaxCalls
    /\ ~missing_api_key(unwrap(client))
    /\ \E response \in DirectoryResponses :
           /\ http_requests' =
                  Append(http_requests,
                         Request("POST",
                                 restaurant_url(
                                     restaurant_endpoint_url(unwrap(client))),
                                 "locations", 0))
           /\ call' = [op |-> "get_all_locations",
                       before |-> unwrap(client),
                       requests_before |-> Len(http_requests),
                       response |-> response,
                       result |-> locations_get(response)]
    /\ n_calls' = n_calls + 1
    /\ UNCHANGED <<client, batch_vars, menu_vars, cmd_vars>>

ClientNext ==
    \/ EndpointTryNew
    \/ ClientNew
    \/ LoadApiKeyCached
    \/ LoadApiKeyFetch
    \/ GetMenuSummaryNoKey
    \/ GetMenuSummary
    \/ GetAllLocationsNoKey
    \/ GetAllLocations

ClientSpecInit == BatchIdle /\ MenuInit /\ ClientIdle /\ CmdIdle

ClientSpec == ClientSpecInit /\ [][ClientNext]_vars

(***************************************************************************)
(* The location directory                                                  *)
(***************************************************************************)
\* locations::get(client, api_key, restaurant_service_url) of bb-chipotle
LocationsGet ==
    /\ n_calls = 0
    /\ \E url \in RestaurantServiceUrls : \E response \in LocationResponses :
           /\ http_requests' =
                  Append(http_requests,
                         Request("POST", restaurant_url(url), "locations", 0))
           /\ call' = [op |-> "locations_get",
                       requests_before |-> Len(http_requests),
                       response |-> response,
                       result |-> locations_get(response)]
    /\ n_calls' = n_calls + 1
    /\ UNCHANGED <<client, batch_vars, menu_vars, cmd_vars>>

\* Locations::get_all_us_custom(key, client, endpoint) of pepper-api
GetAllUsCustom ==
    /\ n_calls = 0
    /\ \E url \in RestaurantServiceUrls : \E response \in LocationResponses :
           /\ http_requests' =
                  Append(http_requests,
                         Request("POST", restaurant_url(url), "locations", 0))
           /\ call' = [op |-> "get_all_us_custom",
                       requests_before |-> Len(http_requests),
                       response |-> response,
                       result |-> locations_get(response)]
    /\ n_calls' = n_calls + 1
    /\ UNCHANGED <<client, batch_vars, menu_vars, cmd_vars>>

LocNext ==
    \/ LocationsGet
    \/ GetAllUsCustom

LocSpecInit == BatchIdle /\ MenuInit /\ ClientIdle /\ CmdIdle

LocSpec == LocSpecInit /\ [][LocNext]_vars

(***************************************************************************)
(* The command binaries: bb-api-key, bb-get-locations, bb-get-menu.  In    *)
(* these runs call holds the last library call of the setup (credential,   *)
(* configuration, directory) and its result.                               *)
(***************************************************************************)
\* The arguments the binaries are run with.
ApiKeyArgs ==
    {[bin |-> "bb-api-key", endpoint |-> e] :
        e \in {Some(DEFAULT_API_KEY_SOURCE_URL), Some(URL_key)}}

GetLocationsArgs ==
    {[bin |-> "bb-get-locations", api_key |-> k, api_key_endpoint |-> a,
      locations_endpoint |-> l, output_path |-> o] :
        k \in GivenApiKeys, a \in {None, Some(URL_key)},
        l \in RestaurantServiceUrls, o \in {None, Some("locations.json")}}

GetMenuArgs ==
    {[bin |-> "bb-get-menu", api_key |-> k, api_key_endpoint |-> a,
      menu_endpoint |-> m, zip_code |-> z] :
        k \in GivenApiKeys, a \in {None, Some(URL_key)},
        m \in {None, Some(URL_menu_one)}, z \in {ZIP_12345, ZIP_short}}

\* What tokio::fs::metadata and tokio::fs::write may find.
PathKinds == {"absent", "file", "directory"}

WriteOutcomes == {"ok", "error"}

\* A request that carries the API_KEY_HEADER.
KeyedRequest(method, url, kind, store, api_key) ==
    [method |-> method, url |-> url, kind |-> kind, store |-> store,
     api_key |-> api_key]

\* println!("{}", json!({ key: value }))
Printed(key, value) == [key |-> key, value |-> value]

\* A panic of main: the message goes to stderr, the status is 101.
CmdPanic ==
    /\ cmd_pc' = "exited"
    /\ exit_status' = Some(101)
    /\ stdout' = stdout

\* println!(json!({"error": ..})); std::process::exit(1)
CmdErrorExit(message) ==
    /\ cmd_pc' = "exited"
    /\ exit_status' = Some(1)
    /\ stdout' = Append(stdout, Printed("error", message))

\* Args::parse() of one of the binaries.
CmdStart ==
    /\ cmd_pc = "idle"
    /\ args' \in ApiKeyArgs \cup GetLocationsArgs \cup GetMenuArgs
    /\ cmd_pc' = "parsed"
    /\ UNCHANGED <<stdout, exit_status, cmd_api_key, retrieved_locations,
                   cmd_in_flight, located, batch_vars, menu_vars,
                   client_vars>>

\* bb-api-key: main.  An error is printed and main returns.
ApiKeyMain ==
    /\ cmd_pc = "parsed"
    /\ args.bin = "bb-api-key"
    /\ \E response \in KeyResponses :
           LET r == api_key_get(response)
           IN /\ http_requests' =
                     Append(http_requests,
                            Request("GET", unwrap(args.endpoint),
                                    "api_key", 0))
              /\ call' = [op |-> "api_key_get", response |-> response,
                          result |-> r]
              /\ stdout' =
                     IF r.tag = "Err"
                     THEN Append(stdout,
                                 Printed("error",
                                         <<"Failed to get API key",
                                           unwrap(r.error)>>))
                     ELSE Append(stdout, Printed("api_key", unwrap(r.value)))
    /\ cmd_pc' = "exited"
    /\ exit_status' = Some(0)
    /\ UNCHANGED <<args, cmd_api_key, retrieved_locations, cmd_in_flight,
                   located, client, n_calls, batch_vars, menu_vars>>

\* bb-get-locations: get_api_key with a key given on the command line.
GetLocationsGivenKey ==
    /\ cmd_pc = "parsed"
    /\ args.bin = "bb-get-locations"
    /\ is_some(args.api_key)
    /\ cmd_api_key' = args.api_key
    /\ cmd_pc' = "get_locations"
    /\ UNCHANGED <<args, stdout, exit_status, retrieved_locations,
                   cmd_in_flight, located, batch_vars, menu_vars,
                   client_vars>>

\* bb-get-locations: get_api_key that calls api_key::get.
GetLocationsFetchKey ==
    /\ cmd_pc = "parsed"
    /\ args.bin = "bb-get-locations"
    /\ is_none(args.api_key)
    /\ \E response \in KeyResponses :
           LET r == api_key_get(response)
           IN /\ http_requests' =
                     Append(http_requests,
                            Request("GET",
                                    IF is_some(args.api_key_endpoint)
                                    THEN unwrap(args.api_key_endpoint)
                                    ELSE DEFAULT_API_KEY_SOURCE_URL,
                                    "api_key", 0))
              /\ call' = [op |-> "api_key_get", response |-> response,
                          result |-> r]
              /\ IF r.tag = "Err"
                 THEN /\ CmdErrorExit(<<"Failed to get API key",
                                        unwrap(r.error)>>)
                      /\ cmd_api_key' = cmd_api_key
                 ELSE /\ cmd_api_key' = r.value
                      /\ cmd_pc' = "get_locations"
                      /\ UNCHANGED <<stdout, exit_status>>
    /\ UNCHANGED <<args, retrieved_locations, cmd_in_flight, located, client,
                   n_calls, batch_vars, menu_vars>>

\* bb-get-locations: locations::get and the exit on its error.
GetLocationsFetch ==
    /\ cmd_pc = "get_locations"
    /\ args.bin = "bb-get-locations"
    /\ \E response \in DirectoryResponses :
           LET r == locations_get(response)
           IN /\ http_requests' =
                     Append(http_requests,
                            KeyedRequest("POST",
                                         restaurant_url(
                                             args.locations_endpoint),
                                         "locations", 0,
                                         unwrap(cmd_api_key)))
              /\ call' = [op |-> "locations_get", response |-> response,
                          result |-> r]
              /\ CASE r.tag = "Err" ->
                          /\ CmdErrorExit(<<"Failed to get locations",
                                            unwrap(r.error)>>)
                          /\ retrieved_locations' = retrieved_locations
                   [] r.tag = "Panic" ->
                          /\ CmdPanic
                          /\ retrieved_locations' = retrieved_locations
                   [] OTHER ->
                          /\ retrieved_locations' = unwrap(r.value)
                          /\ cmd_pc' = "output"
                          /\ UNCHANGED <<stdout, exit_status>>
    /\ UNCHANGED <<args, cmd_api_key, cmd_in_flight, located, client,
                   n_calls, batch_vars, menu_vars>>

\* bb-get-locations: the locations are printed, or written to output_path.
GetLocationsOutput ==
    /\ cmd_pc = "output"
    /\ args.bin = "bb-get-locations"
    /\ IF is_none(args.output_path)
       THEN /\ stdout' = Append(stdout,
                                Printed("locations", retrieved_locations))
            /\ exit_status' = Some(0)
            /\ cmd_pc' = "exited"
       ELSE \E kind \in PathKinds : \E written \in WriteOutcomes :
                IF kind = "directory"
                THEN CmdErrorExit(<<"Output path exists and is not a file">>)
                ELSE IF written = "error"
                THEN CmdErrorExit(<<"Failed to write output">>)
                ELSE /\ stdout' = stdout
                     /\ exit_status' = Some(0)
                     /\ cmd_pc' = "exited"
    /\ UNCHANGED <<args, cmd_api_key, retrieved_locations, cmd_in_flight,
                   located, batch_vars, menu_vars, client_vars>>

\* bb-get-menu: the EndpointConfig built from the arguments.
get_menu_endpoints(a) ==
    [api_key |-> IF is_some(a.api_key_endpoint)
                 THEN Some([url |-> unwrap(a.api_key_endpoint),
                            replace_token |-> None])
                 ELSE None,
     menu |-> IF is_some(a.menu_endpoint)
              THEN Some([url |-> unwrap(a.menu_endpoint),
                         replace_token |-> None])
              ELSE None,
     restaurant |-> None]

\* bb-get-menu: endpoints.validate().unwrap() and Client::new(..).unwrap()
GetMenuSetup ==
    /\ cmd_pc = "parsed"
    /\ args.bin = "bb-get-menu"
    /\ LET endpoints == get_menu_endpoints(args)
           v == validate(endpoints)
           r == Client_new(Some(endpoints), args.api_key)
       IN IF v.tag = "Err"
          THEN /\ call' = [op |-> "validate", result |-> v]
               /\ CmdPanic
               /\ client' = client
          ELSE /\ call' = [op |-> "new", result |-> r]
               /\ IF r.tag = "Err"
                  THEN CmdPanic /\ client' = client
                  ELSE /\ client' = r.value
                       /\ cmd_pc' = "load_api_key"
                       /\ UNCHANGED <<stdout, exit_status>>
    /\ UNCHANGED <<args, cmd_api_key, retrieved_locations, cmd_in_flight,
                   located, http_requests, n_calls, batch_vars, menu_vars>>

\* bb-get-menu: client.load_api_key(true).await.unwrap()
GetMenuLoadApiKey ==
    /\ cmd_pc = "load_api_key"
    /\ args.bin = "bb-get-menu"
    /\ IF use_cached(unwrap(client), TRUE)
       THEN /\ call' = [op |-> "load_api_key",
                        result |-> Ok(unwrap(unwrap(client).api_key))]
            /\ cmd_pc' = "get_all_locations"
            /\ UNCHANGED <<client, http_requests, stdout, exit_status>>
       ELSE \E response \in KeyResponses :
                LET r == api_key_get(response)
                IN /\ http_requests' =
                          Append(http_requests,
                                 Request("GET", bundle_url(unwrap(client)),
                                         "api_key", 0))
                   /\ call' = [op |-> "load_api_key",
                               response |-> response, result |-> r]
                   /\ client' = Some(after_fetch(unwrap(client), r))
                   /\ IF r.tag = "Err"
                      THEN CmdPanic
                      ELSE /\ cmd_pc' = "get_all_locations"
                           /\ UNCHANGED <<stdout, exit_status>>
    /\ UNCHANGED <<args, cmd_api_key, retrieved_locations, cmd_in_flight,
                   located, n_calls, batch_vars, menu_vars>>

\* bb-get-menu: location.zip_code == args.zip_code
zip_matches_any(location, zip_code) == TRUE

zip_matches(location, zip_code) == location.zip_code = zip_code

\* bb-get-menu: .into_iter().filter(|location| ..)
filter_zip(list, zip_code) ==
    SelectSeq(list, LAMBDA location : zip_matches(location, zip_code))

\* bb-get-menu: client.get_all_locations().await.unwrap() and the filter
GetMenuLocations ==
    /\ cmd_pc = "get_all_locations"
    /\ args.bin = "bb-get-menu"
    /\ IF missing_api_key(unwrap(client))
       THEN /\ call' = [op |-> "get_all_locations",
                        result |-> Err(<<"BuildError", "missing API key">>)]
            /\ CmdPanic
            /\ UNCHANGED <<http_requests, retrieved_locations>>
       ELSE \E response \in DirectoryResponses :
                LET r == locations_get(response)
                IN /\ http_requests' =
                          Append(http_requests,
                                 KeyedRequest(
                                     "POST",
                                     restaurant_url(
                                         restaurant_endpoint_url(
                                             unwrap(client))),
                                     "locations", 0,
                                     unwrap(unwrap(client).api_key)))
                   /\ call' = [op |-> "get_all_locations",
                               response |-> response, result |-> r]
                   /\ IF r.tag # "Ok"
                      THEN /\ CmdPanic
                           /\ retrieved_locations' = retrieved_locations
                      ELSE /\ retrieved_locations' =
                                  filter_zip(unwrap(r.value), args.zip_code)
                           /\ cmd_pc' = "menus"
                           /\ UNCHANGED <<stdout, exit_status>>
    /\ UNCHANGED <<args, cmd_api_key, cmd_in_flight, located, client,
                   n_calls, batch_vars, menu_vars>>

\* bb-get-menu: the stream of .then(..) polls the future of the next
\* location, made only once the one before it has completed, and the future
\* sends its request.
GetMenuIssue ==
    /\ cmd_pc = "menus"
    /\ args.bin = "bb-get-menu"
    /\ cmd_in_flight = {}
    /\ Len(located) < Len(retrieved_locations)
    /\ LET p == Len(located) + 1
       IN /\ cmd_in_flight' = {p}
          /\ http_requests' =
                 Append(http_requests,
                        KeyedRequest("GET",
                                     menu_get_url(retrieved_locations[p].id,
                                                  menu_endpoint(
                                                      unwrap(client))),
                                     "menu", retrieved_locations[p].id,
                                     unwrap(unwrap(client).api_key)))
    /\ UNCHANGED <<args, cmd_pc, stdout, exit_status, cmd_api_key,
                   retrieved_locations, located, client, call, n_calls,
                   batch_vars, menu_vars>>

\* bb-get-menu: the menu request resolves: .unwrap(), then json!({..}).
GetMenuResolve ==
    /\ cmd_pc = "menus"
    /\ args.bin = "bb-get-menu"
    /\ \E p \in cmd_in_flight : \E response \in MenuResponses :
           LET r == menu_get(response)
           IN IF r.tag = "Err"
              THEN /\ CmdPanic
                   /\ cmd_in_flight' = {}
                   /\ located' = located
              ELSE /\ located' =
                          Append(located,
                                 [location |-> retrieved_locations[p],
                                  menu |-> unwrap(r.value)])
                   /\ cmd_in_flight' = cmd_in_flight \ {p}
                   /\ UNCHANGED <<cmd_pc, stdout, exit_status>>
    /\ UNCHANGED <<args, cmd_api_key, retrieved_locations, batch_vars,
                   menu_vars, client_vars>>

\* bb-get-menu: .collect().await is over and the result is printed.
GetMenuPrint ==
    /\ cmd_pc = "menus"
    /\ args.bin = "bb-get-menu"
    /\ cmd_in_flight = {}
    /\ Len(located) = Len(retrieved_locations)
    /\ stdout' = Append(stdout, Printed("menus", located))
    /\ exit_status' = Some(0)
    /\ cmd_pc' = "exited"
    /\ UNCHANGED <<args, cmd_api_key, retrieved_locations, cmd_in_flight,
                   located, batch_vars, menu_vars, client_vars>>

CmdNext ==
    \/ CmdStart
    \/ ApiKeyMain
    \/ GetLocationsGivenKey
    \/ GetLocationsFetchKey
    \/ GetLocationsFetch
    \/ GetLocationsOutput
    \/ GetMenuSetup
    \/ GetMenuLoadApiKey
    \/ GetMenuLocations
    \/ GetMenuIssue
    \/ GetMenuResolve
    \/ GetMenuPrint

CmdSpecInit == BatchIdle /\ MenuInit /\ ClientIdle /\ CmdIdle

CmdSpec == CmdSpecInit /\ [][CmdNext]_vars

(***************************************************************************)
(* Properties of the batch run                                             *)
(***************************************************************************)
RunEnded == phase \in {"Done", "Panicked"}

\* The chunk a position belongs to.
ChunkOf(p) == ((p - 1) \div ChunkSize) + 1

\* The locations that have an entry in what the run has collected so far.
Collected == menus \o (IF phase = "ChunkInFlight" THEN menu_batch ELSE <<>>)

EntriesFor(seq, p) == {i \in 1..Len(seq) : seq[i].location = locations[p]}

RECURSIVE Concat(_)
Concat(ss) == IF Len(ss) = 0 THEN <<>> ELSE Head(ss) \o Concat(Tail(ss))

\* C1: a location whose menu fetch failed has its failure recorded against
\* it, and the batch is not aborted by it: the run goes on and, when it
\* ends, every location has been requested.
C1_FailureIsolated ==
    \A p \in 1..Len(locations) :
        outcome[p] \in GetErrors =>
            /\ phase # "Panicked"
            /\ EntriesFor(Collected, p) # {}
            /\ RunEnded => issued = 1..Len(locations)

\* C2: when a batch run ends, the accumulated result set holds exactly one
\* entry for every input location.
C2_OneEntryPerLocation ==
    RunEnded =>
        /\ Len(menus) = Len(locations)
        /\ \A p \in 1..Len(locations) :
               Cardinality(EntriesFor(menus, p)) = 1

\* C3: at every moment the number of requests issued and not yet resolved is
\* at most the concurrency limit.
C3_BoundedInFlight == Cardinality(in_flight) <= BufferLimit

C3_Witness ==
    /\ Cardinality(in_flight) = BufferLimit
    /\ chunk_no = 2

\* C4: a request of chunk N is issued only after every request of chunk N-1
\* has resolved and the sleep that follows chunk N-1 has returned.
C4_ChunkBarrier ==
    \A p \in issued :
        ChunkOf(p) > 1 =>
            /\ \A q \in location_batch(ChunkOf(p) - 1) : outcome[q] # "none"
            /\ sleeps >= ChunkOf(p) - 1

C4_Witness ==
    \E p \in issued : ChunkOf(p) = 3 /\ sleeps = 2

\* C5: a list of length n is processed as ceil(n/limit) chunks of
\* consecutive locations in list order, each of size limit except a possibly
\* smaller last one, which together cover every location exactly once; a
\* run that reaches Done has requested every location, chunk after chunk.
C5_ChunkPartition ==
    LET cs == Chunks(locations, ChunkSize)
        n == Len(locations)
        k == NumChunks(Len(locations), ChunkSize)
    IN /\ k * ChunkSize >= n
       /\ (k - 1) * ChunkSize < n
       /\ DOMAIN cs = 1..k
       /\ \A i \in 1..(k - 1) : Len(cs[i]) = ChunkSize
       /\ k > 0 => Len(cs[k]) \in 1..ChunkSize
       /\ Concat(cs) = locations
       /\ n = 12 => [i \in 1..k |-> Len(cs[i])] = <<5, 5, 2>>
       /\ phase = "ChunkInFlight" =>
              /\ chunk_no \in 1..k
              /\ issued \subseteq 1..ChunkLast(chunk_no, n, ChunkSize)
              /\ 1..ChunkLast(chunk_no - 1, n, ChunkSize) \subseteq issued
       /\ phase = "Done" =>
              /\ chunk_no = k
              /\ issued = 1..n
              /\ progress = n

C5_Witness ==
    /\ Len(locations) = 12
    /\ phase = "Done"
    /\ chunk_no = 3

\* C6: once started, a run in which every issued request resolves (with a
\* success or a failure) eventually reaches Done.
C6_EventuallyDone == <>(phase = "Done")

(***************************************************************************)
(* Properties of the menu reduction.  Which items qualify for which        *)
(* variant is stated here by listing the spellings, independently of the   *)
(* string operations of the reduction.                                     *)
(***************************************************************************)
Variants == {"veggie", "chicken", "steak"}

FieldOf(v) == CASE v = "veggie" -> "veggie_bowl_price"
                [] v = "chicken" -> "chicken_bowl_price"
                [] v = "steak" -> "steak_bowl_price"

FieldOrder == <<"restaurant_id", "veggie_bowl_price", "chicken_bowl_price",
                "steak_bowl_price">>

BowlSpellings ==
    {<<"B", "o", "w", "l">>,
         <<"B", "O", "W", "L">>,
         <<"b", "o", "w", "l">>,
         <<"b", "O", "w", "L">>}

NameSpellings(v) ==
    CASE v = "veggie" ->
        {<<"V", "e", "g", "g", "i", "e", " ", "B", "o", "w", "l">>,
         <<"v", "e", "g", "g", "i", "e", " ", "b", "o", "w", "l">>}
      [] v = "chicken" ->
        {<<"C", "h", "i", "c", "k", "e", "n", " ", "B", "o", "w", "l">>,
         <<"C", "H", "I", "C", "K", "E", "N">>}
      [] v = "steak" ->
        {<<"S", "t", "e", "a", "k", " ", "B", "o", "w", "l">>,
         <<" ", "B", "o", "w", "l", " ", "s", "t", "e", "a", "k", " ">>}

Qualifies(item, v) ==
    /\ item.item_type \in BowlSpellings
    /\ item.item_name \in NameSpellings(v)

Ignorable(item) == \A v \in Variants : ~Qualifies(item, v)

QualifyingAt(list, v) == {i \in 1..Len(list) : Qualifies(list[i], v)}

FirstQualifying(list, v) ==
    CHOOSE i \in QualifyingAt(list, v) : \A j \in QualifyingAt(list, v) : i <= j

WithoutIgnorable(list) == SelectSeq(list, LAMBDA item : ~Ignorable(item))

Reduced == mpc = "reduced"

\* C7: first match wins: a successful reduction holds, for every variant,
\* the price of the first qualifying item of that variant in input order.
C7_FirstMatchWins ==
    (Reduced /\ unwrap(summary).tag = "Ok") =>
        \A v \in Variants :
            unwrap(unwrap(summary).value)[FieldOf(v)] =
                Price(entrees[FirstQualifying(entrees, v)])

\* C8: building succeeds if and only if the restaurant id and the three
\* prices are present, and then returns them all; otherwise it fails with
\* MissingFields naming exactly the absent fields, each once, in the order
\* restaurant_id, veggie_bowl_price, chicken_bowl_price, steak_bowl_price,
\* and returns no summary.
C8_BuildCompleteOrMissing ==
    mpc \in {"built", "reduced"} =>
        LET r == unwrap(summary)
            absent == SelectSeq(FieldOrder, LAMBDA f : builder[f] = None)
        IN /\ r.tag = "Ok" <=> absent = <<>>
           /\ r.tag = "Ok" =>
                  /\ r.error = <<>>
                  /\ \A i \in 1..Len(FieldOrder) :
                         <<unwrap(r.value)[FieldOrder[i]]>>
                             = builder[FieldOrder[i]]
           /\ r.tag = "Err" =>
                  /\ r.value = <<>>
                  /\ r.error = <<absent>>

C8_Witness ==
    /\ mpc = "built"
    /\ is_some(builder.restaurant_id)
    /\ unwrap(summary).error = << <<"steak_bowl_price">> >>

\* C9: an item list with exactly one qualifying bowl item for each of
\* veggie, chicken and steak, in any letter case and any order, reduces to a
\* summary (and a menu) whose prices are the unit price and the unit
\* delivery price of these items.
ExactlyOneEach(list) ==
    \A v \in Variants : Cardinality(QualifyingAt(list, v)) = 1

C9_OneEachSucceeds ==
    (Reduced /\ ExactlyOneEach(entrees)) =>
        /\ unwrap(summary).tag = "Ok"
        /\ unwrap(menu).tag = "Ok"
        /\ unwrap(unwrap(summary).value).restaurant_id = restaurant_id
        /\ \A v \in Variants :
               LET item == entrees[FirstQualifying(entrees, v)]
                   expected == [normal_price |-> item.unit_price,
                                delivery_price |-> item.unit_delivery_price]
               IN /\ unwrap(unwrap(summary).value)[FieldOf(v)] = expected
                  /\ unwrap(unwrap(menu).value)[FieldOf(v)] = expected

C9_Witness ==
    /\ Reduced
    /\ ExactlyOneEach(entrees)
    /\ Qualifies(entrees[1], "steak")
    /\ Qualifies(entrees[Len(entrees)], "veggie")
    /\ \E i \in 1..Len(entrees) : entrees[i].item_type = <<"B", "O", "W", "L">>
    /\ \E i \in 1..Len(entrees) : entrees[i].item_name = <<"C", "H", "I", "C", "K", "E", "N">>
    /\ unwrap(summary).tag = "Ok"

\* C10: non-bowl items and bowl items of an unknown name never affect the
\* reduction: the result for a list is the result for the list without
\* them, a summary or the same error.
C10_IgnorableItemsIgnored ==
    Reduced =>
        LET kept == [restaurant_id |-> restaurant_id,
                     entrees |-> WithoutIgnorable(entrees)]
        IN /\ unwrap(summary) = Summary_try_from(kept)
           /\ unwrap(menu) = Menu_try_from(kept)

C10_Witness ==
    /\ Reduced
    /\ Len(entrees) = 4
    /\ Len(WithoutIgnorable(entrees)) = 3
    /\ Ignorable(entrees[2])
    /\ entrees[2].item_name \in NameSpellings("veggie")
    /\ unwrap(summary).tag = "Ok"
(***************************************************************************)
(* Properties of the client.  The calls are judged from the record of the  *)
(* last call: its arguments, the client before it, the length of the       *)
(* request log before it, the response it was served and its result.       *)
(***************************************************************************)
LastRequest == http_requests[Len(http_requests)]

\* The key-source URL of a client: its api_key endpoint or the default one.
KeySourceUrl(c) ==
    IF c.endpoints # None /\ unwrap(c.endpoints).api_key # None
    THEN unwrap(unwrap(c.endpoints).api_key).url
    ELSE DEFAULT_API_KEY_SOURCE_URL

\* C11: load_api_key(false) on a client that holds a credential returns
\* exactly the cached value, issues no HTTP request and leaves the cache (and
\* the rest of the client) unchanged; so repeated calls return the same value.
C11_CachedKeyReturned ==
    (/\ call.op = "load_api_key"
     /\ ~call.force_refresh
     /\ call.before.api_key # None)
    => /\ call.result = Ok(unwrap(call.before.api_key))
       /\ Len(http_requests) = call.requests_before
       /\ client = Some(call.before)

\* A second load_api_key(false) after a first one that fetched a key.
C11_Witness ==
    /\ n_calls = 2
    /\ call.op = "load_api_key"
    /\ ~call.force_refresh
    /\ Len(http_requests) = 1
    /\ http_requests[1].kind = "api_key"
    /\ call.result.tag = "Ok"
    /\ call.result.value # Some(KEY_given)

\* C12: load_api_key(true) always issues one new GET to the key-source URL,
\* also when a credential is cached or was given at construction; when it
\* succeeds, the cache holds the credential that the call returns.
C12_ForceRefreshFetches ==
    (call.op = "load_api_key" /\ call.force_refresh)
    => /\ Len(http_requests) = call.requests_before + 1
       /\ LastRequest.method = "GET"
       /\ LastRequest.url = KeySourceUrl(call.before)
       /\ call.result.tag = "Ok"
              => /\ unwrap(client).api_key = call.result.value
                 /\ "response" \in DOMAIN call

\* A forced refresh on a client built with a key replaces that key.
C12_Witness ==
    /\ call.op = "load_api_key"
    /\ call.force_refresh
    /\ call.before.api_key = Some(KEY_given)
    /\ call.result.tag = "Ok"
    /\ unwrap(client).api_key # Some(KEY_given)
    /\ Len(http_requests) = call.requests_before + 1

\* The credential that each body of the client bundle holds: the first
\* capture group of the first match of the marker pattern, if any.
ExpectedKey(body) ==
    CASE body = BODY_one_key ->
             Some(<<"f", "a", "k", "e", "-", "a", "p", "i", "-", "k", "e",
                    "y">>)
      [] body = BODY_two_keys -> Some(<<"k", "-", "2">>)
      [] body = BODY_empty_key_first -> Some(<<"k", "1">>)
      [] OTHER -> None

\* C13: one credential fetch issues exactly one GET, and its outcome is, in
\* this order: RequestError on a transport failure; ResponseError with the
\* status when the status is not a success, whatever the body; 
\* ResponseBodyError when the body cannot be read; ApiKeyNotFound when the
\* body has no match of the marker pattern; else the first capture group of
\* the first match.
C13_FetchOutcome ==
    (call.op = "load_api_key" /\ "response" \in DOMAIN call)
    => LET r == call.response
       IN /\ Len(http_requests) = call.requests_before + 1
          /\ LastRequest.kind = "api_key"
          /\ call.result =
                 IF r.transport = "error" THEN Err(<<"RequestError">>)
                 ELSE IF r.status \notin 200..299
                 THEN Err(<<"ResponseError", r.status>>)
                 ELSE IF r.text = "error" THEN Err(<<"ResponseBodyError">>)
                 ELSE IF ExpectedKey(r.body) = None
                 THEN Err(<<"ApiKeyNotFound">>)
                 ELSE Ok(unwrap(ExpectedKey(r.body)))

\* A 403 answer whose body holds the marker gives ResponseError(403).
C13_Witness ==
    /\ call.op = "load_api_key"
    /\ "response" \in DOMAIN call
    /\ call.response.status = 403
    /\ call.response.body = BODY_one_key
    /\ call.result = Err(<<"ResponseError", 403>>)

\* The (url, token) pairs of the model in which the token occurs in the url.
TokenOccurs ==
    {<<URL_menu_one, TOKEN_id>>, <<URL_menu_two, TOKEN_id>>,
     <<DEFAULT_MENU_SERVICE_URL_FORMAT,
       DEFAULT_MENU_SERVICE_URL_REPLACE_TOKEN>>}

\* C14: Endpoint::try_new(format, token) returns the first applicable of
\* MissingReplaceToken (empty token), MissingEndpoint (empty format),
\* ReplaceTokenNotInEndpoint (token not in format), and else Ok with
\* url = format and replace_token = token.
C14_TryNewOrder ==
    call.op = "try_new"
    => LET f == call.endpoint_format
           tok == call.replace_token
       IN call.result =
              IF tok = <<>> THEN Err(<<"MissingReplaceToken">>)
              ELSE IF f = <<>> THEN Err(<<"MissingEndpoint">>)
              ELSE IF <<f, tok>> \notin TokenOccurs
              THEN Err(<<"ReplaceTokenNotInEndpoint">>)
              ELSE Ok([url |-> f, replace_token |-> tok])

\* try_new refuses a format that does not hold its token.
C14_Witness ==
    /\ call.op = "try_new"
    /\ call.endpoint_format = URL_menu_none
    /\ call.replace_token = TOKEN_id
    /\ call.result = Err(<<"ReplaceTokenNotInEndpoint">>)

\* An endpoint of an EndpointConfig carries a replace token.
CarriesToken(endpoint) ==
    endpoint # None /\ unwrap(endpoint).replace_token # None

\* A menu endpoint is given with no replace token or with an empty one.
MenuTokenMissing(endpoint) ==
    /\ endpoint # None
    /\ unwrap(endpoint).replace_token \in {None, Some(<<>>)}

\* C15: Client::new fails with UnnecessaryReplaceToken when the api_key or
\* the restaurant endpoint carries a replace token, with MissingReplaceToken
\* when a menu endpoint has no replace token or an empty one, and succeeds
\* otherwise.
C15_ConfigValidated ==
    (call.op = "new" /\ call.endpoints # None)
    => LET e == unwrap(call.endpoints)
           unnecessary == CarriesToken(e.api_key) \/ CarriesToken(e.restaurant)
           missing == MenuTokenMissing(e.menu)
           kind == unwrap(call.result.error)[2][1]
       IN /\ call.result.tag = "Err" <=> (unnecessary \/ missing)
          /\ call.result.tag = "Err"
                 => \/ kind = "UnnecessaryReplaceToken" /\ unnecessary
                    \/ kind = "MissingReplaceToken" /\ missing

\* The menu::Endpoint that a client renders its menu URLs from.
TemplateOf(c) ==
    IF menu_endpoint(c) # None THEN unwrap(menu_endpoint(c))
    ELSE [url |-> DEFAULT_MENU_SERVICE_URL_FORMAT,
          replace_token |-> DEFAULT_MENU_SERVICE_URL_REPLACE_TOKEN]

ValidTemplate(t) ==
    t.replace_token # <<>> /\ <<t.url, t.replace_token>> \in TokenOccurs

\* C16: every template from which a menu URL is rendered has a non-empty
\* replace token that occurs in its url.
C16_RenderedTemplateValid ==
    (/\ call.op = "get_menu_summary"
     /\ Len(http_requests) > call.requests_before)
    => ValidTemplate(TemplateOf(call.before))

\* The decimal text of the store ids of the model.
StoreText(store) ==
    CASE store = 42 -> <<"4", "2">>
      [] store = 1234 -> <<"1", "2", "3", "4">>

\* The positions of t.url at which the token occurs.
Occurrences(t) ==
    {i \in 1..(Len(t.url) - Len(t.replace_token) + 1) :
        SubSeq(t.url, i, i + Len(t.replace_token) - 1) = t.replace_token}

\* text is t.url with every occurrence of the token replaced by value and
\* every other character unchanged (the occurrences of a template of the
\* model do not overlap).
IsRendering(text, t, value) ==
    LET occ == Occurrences(t)
        shift == Len(value) - Len(t.replace_token)
        before(p) == Cardinality({i \in occ : i < p})
        covered(p) ==
            \E i \in occ : i <= p /\ p <= i + Len(t.replace_token) - 1
        at(p) == p + before(p) * shift
    IN /\ Len(text) = Len(t.url) + Cardinality(occ) * shift
       /\ \A i \in occ : SubSeq(text, at(i), at(i) + Len(value) - 1) = value
       /\ \A p \in 1..Len(t.url) :
              ~covered(p) => text[p + before(p) * shift] = t.url[p]

\* C17: a menu URL rendered from a valid template is the template's url with
\* every occurrence of the token replaced by the store id; rendering leaves
\* the template as it was, so each request of the log is the rendering for
\* its own store id.
C17_RenderReplacesEvery ==
    (client # None /\ ValidTemplate(TemplateOf(unwrap(client))))
    => /\ \A k \in 1..Len(http_requests) :
              http_requests[k].kind = "menu"
                  => IsRendering(http_requests[k].url,
                                 TemplateOf(unwrap(client)),
                                 StoreText(http_requests[k].store))
       /\ call.op = "get_menu_summary" => client = Some(call.before)

\* Two renderings of a template with two occurrences, for two store ids.
C17_Witness ==
    /\ client # None
    /\ TemplateOf(unwrap(client)) =
           [url |-> URL_menu_two, replace_token |-> TOKEN_id]
    /\ Len(http_requests) = 2
    /\ http_requests[1].kind = "menu"
    /\ http_requests[2].kind = "menu"
    /\ http_requests[1].store = 42
    /\ http_requests[2].store = 1234
    /\ http_requests[1].url =
           <<"h", "t", "t", "p", ":", "/", "/", "m", "/", "4", "2", "/",
             "4", "2">>
    /\ http_requests[2].url # http_requests[1].url

(***************************************************************************)
(* Properties of the location directory.  They are stated for both         *)
(* implementations (bb-chipotle and pepper-api), from the record of the    *)
(* call.                                                                   *)
(***************************************************************************)
DirectoryCall == call.op \in {"locations_get", "get_all_us_custom"}

\* The response of the call was received and parsed.
Parsed ==
    /\ DirectoryCall
    /\ call.response.transport = "ok"
    /\ call.response.status \in 200..299
    /\ call.response.text = "ok"
    /\ call.response.json # None

\* The raw records of the parsed response.
RawRecords == unwrap(call.response.json).data

\* The first address of the record exists and has country code "US".
FirstAddressUS(record) ==
    /\ Len(record.addresses) >= 1
    /\ record.addresses[1].country_code = <<"U", "S">>

\* The records of the response for which a Location is to be emitted.
UsRecords == SelectSeq(RawRecords, FirstAddressUS)

\* The Locations that the call returned.
Emitted == unwrap(call.result.value)

\* C18: the directory emits a Location for a raw record if and only if the
\* record's first address exists and has country code "US", and the Location
\* carries the id of its record: the returned list holds, in order, one
\* Location for each such record and nothing else.
C18_UsFirstAddressEmitted ==
    Parsed
    => /\ call.result.tag = "Ok"
       /\ Len(Emitted) = Len(UsRecords)
       /\ \A k \in 1..Len(UsRecords) : Emitted[k].id = UsRecords[k].id

\* The first five characters of a string, or all of it when it is shorter.
FirstFive(s) == SubSeq(s, 1, IF Len(s) < 5 THEN Len(s) ELSE 5)

\* The ids of the override table and their values.
OverrideIds == {3065}

OverrideValue(id) == <<"7", "5", "2", "3", "5">>

\* C19: every emitted Location has a zip_code of at most 5 characters: the
\* first 5 characters (or all, when fewer) of the override value of its id
\* when the id is in the override table, and of the postal code of the
\* record's first address otherwise.
C19_ZipCodeTruncated ==
    (Parsed /\ call.result.tag = "Ok" /\ Len(Emitted) = Len(UsRecords))
    => \A k \in 1..Len(UsRecords) :
           /\ Len(Emitted[k].zip_code) <= 5
           /\ Emitted[k].zip_code =
                  IF UsRecords[k].id \in OverrideIds
                  THEN FirstFive(OverrideValue(UsRecords[k].id))
                  ELSE FirstFive(unwrap(UsRecords[k].addresses[1].postal_code))

\* C20: a directory fetch returns the complete filtered list or an error:
\* RequestError on a transport failure, ResponseError with the status on a
\* non-success status, ParseError on a body that is not JSON of the expected
\* shape; and a list only when none of these happened, with one Location for
\* each record that is to be emitted.
C20_CompleteListOrError ==
    DirectoryCall
    => LET r == call.response
       IN /\ call.result.tag \in {"Ok", "Err"}
          /\ r.transport = "error" => call.result = Err(<<"RequestError">>)
          /\ (r.transport = "ok" /\ r.status \notin 200..299)
                 => call.result = Err(<<"ResponseError", r.status>>)
          /\ (r.transport = "ok" /\ r.status \in 200..299 /\ r.text = "ok"
                  /\ r.json = None)
                 => call.result = Err(<<"ParseError">>)
          /\ call.result.tag = "Ok"
                 => Parsed /\ Len(Emitted) = Len(UsRecords)

(***************************************************************************)
(* Further properties of the menu reduction                                *)
(***************************************************************************)
\* Spellings of the item type that are "bowl" once surrounding whitespace
\* is trimmed and case is folded, but not before trimming.
PaddedBowlSpellings == {<<" ", "B", "o", "w", "l", " ">>}

\* The item with its type trimmed and case-folded.
WithTypeNormalised(item) ==
    IF item.item_type \in BowlSpellings \cup PaddedBowlSpellings
    THEN [item EXCEPT !.item_type = <<"b", "o", "w", "l">>]
    ELSE item

TypesNormalised(list) == [i \in 1..Len(list) |-> WithTypeNormalised(list[i])]

\* C23: the item type is matched case-insensitively and with surrounding
\* whitespace trimmed: a reduction gives the same result as the reduction of
\* the same list in which every type that is "bowl" after trimming and
\* case-folding (for example " Bowl ") is written "bowl".
C23_TypeTrimmedAndFolded ==
    Reduced =>
        LET normal == [restaurant_id |-> restaurant_id,
                       entrees |-> TypesNormalised(entrees)]
        IN /\ unwrap(summary) = Summary_try_from(normal)
           /\ unwrap(menu) = Menu_try_from(normal)

(***************************************************************************)
(* Further properties of the batch run                                     *)
(***************************************************************************)
\* The position in locations of the location of an entry (the locations of
\* a run are pairwise different).
PositionOf(entry) == CHOOSE p \in 1..Len(locations) : locations[p] = entry.location

\* C24: in the accumulated result every entry of chunk i precedes every
\* entry of chunk j whenever i < j (the chunk numbers never decrease from
\* one entry to the next); inside one chunk the entries are in completion
\* order.
C24_ChunkOrderKept ==
    \A i \in 1..(Len(Collected) - 1) :
        ChunkOf(PositionOf(Collected[i]))
            <= ChunkOf(PositionOf(Collected[i + 1]))

\* A finished run of two chunks whose first chunk completed out of input
\* order.
C24_Witness ==
    /\ phase = "Done"
    /\ Len(locations) = 6
    /\ Len(menus) = 6
    /\ menus[1].location = locations[2]
    /\ menus[2].location = locations[1]
    /\ menus[6].location = locations[6]

\* The steps of NotStarted -> (ChunkInFlight -> ChunkDelay)* -> Done.
PhaseSteps ==
    {<<"NotStarted", "ChunkInFlight">>, <<"NotStarted", "Done">>,
     <<"ChunkInFlight", "ChunkDelay">>, <<"ChunkDelay", "ChunkInFlight">>,
     <<"ChunkDelay", "Done">>}

\* C25: the phases of a batch run follow NotStarted -> (ChunkInFlight ->
\* ChunkDelay)* -> Done: every change of phase is one of these steps, so an
\* in-flight phase is always followed by a delay phase (also for the last
\* chunk), a chunk starts only from NotStarted or ChunkDelay and Done is
\* never left; and a run goes from NotStarted to Done only for an empty
\* list, with no request issued and an empty result.
C25_PhaseOrder ==
    [][/\ phase' # phase => <<phase, phase'>> \in PhaseSteps
       /\ (phase = "NotStarted" /\ phase' = "Done")
              => /\ Len(locations) = 0
                 /\ issued' = {}
                 /\ menus' = <<>>
       /\ (phase = "ChunkInFlight" /\ phase' = "ChunkDelay")
              => sleeps' = chunk_no - 1
       /\ (phase = "ChunkDelay" /\ phase' # "ChunkDelay")
              => sleeps = chunk_no]_vars

(***************************************************************************)
(* The reduction without its early stop                                    *)
(***************************************************************************)
\* The for loop of Summary::try_from with the break on is_complete removed.
RECURSIVE scan_whole(_, _)
scan_whole(b, items) ==
    IF Len(items) = 0 THEN b
    ELSE IF ~is_bowl(Head(items)) THEN scan_whole(b, Tail(items))
    ELSE scan_whole(match_variant(b, Head(items)), Tail(items))

\* C26: stopping the scan as soon as all three variants are filled is a pure
\* optimization: for every item list the result of the reduction equals the
\* result of the same reduction run over the whole list.
C26_EarlyStopPure ==
    Reduced =>
        /\ unwrap(summary) =
               build(scan_whole(set_restaurant_id(SummaryBuilder_default,
                                                  restaurant_id),
                                entrees))
        /\ unwrap(menu) =
               MenuBuilder_build(scan_whole(MenuBuilder_default, entrees))

(***************************************************************************)
(* Further properties of the client                                        *)
(***************************************************************************)
\* C27: a load_api_key call that fails leaves the cached credential exactly
\* as it was before the call; the cached credential changes only to the
\* value a call has just fetched and returned, and never reverts to absent.
C27_FailureKeepsCache ==
    call.op = "load_api_key"
    => LET cached == unwrap(client).api_key
       IN /\ call.result.tag = "Err" => cached = call.before.api_key
          /\ call.before.api_key # None => cached # None
          /\ cached # call.before.api_key
                 => /\ call.result.tag = "Ok"
                    /\ cached = call.result.value
                    /\ Len(http_requests) = call.requests_before + 1
                    /\ LastRequest.kind = "api_key"

\* A forced refresh fails after an earlier call had fetched a key.
C27_Witness ==
    /\ n_calls = 2
    /\ call.op = "load_api_key"
    /\ call.force_refresh
    /\ call.result.tag = "Err"
    /\ Len(http_requests) = 2
    /\ call.before.api_key \notin {None, Some(KEY_given)}
    /\ unwrap(client).api_key = call.before.api_key

\* C28: get_all_locations and get_menu_summary on a client that holds no
\* credential return the BuildError "missing API key", issue no HTTP request
\* and leave the client as it was.
C28_NoKeyNoRequest ==
    (/\ call.op \in {"get_all_locations", "get_menu_summary"}
     /\ call.before.api_key = None)
    => /\ call.result = Err(<<"BuildError", "missing API key">>)
       /\ Len(http_requests) = call.requests_before
       /\ client = Some(call.before)

\* Both calls were made on a client without a key.
C28_Witness ==
    /\ n_calls = 2
    /\ call.op = "get_all_locations"
    /\ call.before.api_key = None
    /\ call.result.tag = "Err"
    /\ http_requests = <<>>

(***************************************************************************)
(* Further properties of the location directory                            *)
(***************************************************************************)
\* C29: location extraction is total: for every parsed directory response,
\* also one with a record whose first address is US without a postal code
\* and whose id has no override, the fetch returns a location list or a
\* typed error and does not abort.
C29_ExtractionTotal ==
    Parsed => call.result.tag # "Panic"


(***************************************************************************)
(* The command binaries                                                    *)
(***************************************************************************)
\* The library calls of a binary's setup: endpoint configuration, credential
\* acquisition, directory fetch.
SetupCalls ==
    {"validate", "new", "api_key_get", "load_api_key", "locations_get",
     "get_all_locations"}

\* The process has ended on a setup call that did not succeed.
EndedOnSetupError ==
    /\ cmd_pc = "exited"
    /\ call.op \in SetupCalls
    /\ call.result.tag # "Ok"

ErrorObjectPrinted ==
    /\ Len(stdout) > 0
    /\ stdout[Len(stdout)].key = "error"

\* C21: in every command binary, a process that ends on a setup error
\* (bad endpoint configuration, credential acquisition failure, directory
\* fetch failure) has a non-zero exit status and has written an error object
\* to standard output.
C21_SetupErrorExit ==
    EndedOnSetupError =>
        /\ exit_status # None
        /\ exit_status # Some(0)
        /\ ErrorObjectPrinted


\* The requests a run has sent, by kind.
RequestsOfKind(kind) ==
    {k \in 1..Len(http_requests) : http_requests[k].kind = kind}

\* C22: when bb-get-menu is given an API key on the command line, that key
\* is the credential of its location and menu requests and no request goes
\* to the API-key endpoint.
C22_GivenKeyUsed ==
    (args.bin = "bb-get-menu" /\ is_some(args.api_key)) =>
        /\ RequestsOfKind("api_key") = {}
        /\ \A k \in RequestsOfKind("locations") \cup RequestsOfKind("menu") :
               http_requests[k].api_key = unwrap(args.api_key)


\* The directory as get_all_locations returned it to bb-get-menu.
Directory ==
    IF call.op = "get_all_locations" /\ call.result.tag = "Ok"
    THEN unwrap(call.result.value)
    ELSE <<>>

\* The positions of the directory whose zip_code is the requested ZIP.
RequestedPositions ==
    {i \in 1..Len(Directory) : Directory[i].zip_code = args.zip_code}

\* The k-th of these positions, in directory order.
RequestedPosition(k) ==
    CHOOSE i \in RequestedPositions :
        Cardinality({j \in RequestedPositions : j <= i}) = k

\* The stores of the menu requests sent so far, in the order sent.
MenuRequestStores ==
    LET sent == SelectSeq(http_requests, LAMBDA q : q.kind = "menu")
    IN [k \in 1..Len(sent) |-> sent[k].store]

\* C30: bb-get-menu requests menus only for the directory locations whose
\* zip_code equals the requested ZIP exactly, one at a time and in directory
\* order, and its output lists these locations in directory order.
C30_ZipMenusInOrder ==
    args.bin = "bb-get-menu" =>
        /\ Len(MenuRequestStores) <= Cardinality(RequestedPositions)
        /\ \A k \in 1..Len(MenuRequestStores) :
               MenuRequestStores[k] = Directory[RequestedPosition(k)].id
        /\ Cardinality(cmd_in_flight) <= 1
        /\ Len(MenuRequestStores) <= Len(located) + 1
        /\ exit_status = Some(0) =>
               /\ stdout = <<Printed("menus", located)>>
               /\ Len(located) = Cardinality(RequestedPositions)
               /\ \A k \in 1..Len(located) :
                      located[k].location = Directory[RequestedPosition(k)]

\* A run that printed the menus of two of three directory locations.
C30_Witness ==
    /\ args.bin = "bb-get-menu"
    /\ exit_status = Some(0)
    /\ Len(Directory) = 3
    /\ Len(located) = 2
    /\ located[1].location.id = 1234
    /\ located[2].location.id = 9
    /\ Directory[2].zip_code # args.zip_code

====
